---- MODULE Spec2Model ----
(***************************************************************************)
(* Model of src/main.py: the monthly fund report job.                      *)
(*                                                                         *)
(* Text is modelled as a sequence of characters, each character a string.  *)
(* Characters outside ASCII are written by name:                           *)
(*   "IDSP"  U+3000 ideographic space                                      *)
(*   "FWLP" "FWRP"  U+FF08 U+FF09 full-width parentheses                   *)
(*   "KABU" "SHIKI" "KAI" "SHA"  U+682A U+5F0F U+4F1A U+793E               *)
(*   "FW_A" "FW_H" "FW_D"  full-width capitals, "fw_h" full-width small h  *)
(*   "FW_0" .. "FW_9"  full-width digits                                   *)
(*   "HO" "CHOON" "RU" "DE" "SMALL_I" "N_KANA" "GU" "SU"  the katakana of  *)
(*   the holding-company token of line 483                                 *)
(*   "NEN" "GATSU" "NICHI" "MATSU"  U+5E74 U+6708 U+65E5 U+672B            *)
(***************************************************************************)
EXTENDS Integers, Sequences, FiniteSets, TLC

VARIABLES fn, input, output, called,
          pc, funds, master, fundIdx, cur, results, attempts, errors,
          resolverCalls, stages

vars == <<fn, input, output, called,
          pc, funds, master, fundIdx, cur, results, attempts, errors,
          resolverCalls, stages>>

pureVars == <<fn, input, output, called>>

driverVars == <<pc, funds, master, fundIdx, cur, results, attempts, errors,
                resolverCalls, stages>>

\* Python's None, comparable with text, codes and dates, and equal to none of them
None == <<"None">>

(***************************************************************************)
(* Text helpers: what str and re do to a sequence of characters.           *)
(***************************************************************************)

\* Characters str.strip() and the regex class \s take for whitespace.
Whitespace == {" ", "IDSP"}

HalfDigits == {"0", "1", "2", "3", "4", "5", "6", "7", "8", "9"}

FullDigits == {"FW_0", "FW_1", "FW_2", "FW_3", "FW_4", "FW_5", "FW_6", "FW_7",
               "FW_8", "FW_9"}

\* The regex class \d on str patterns: every Unicode decimal digit.
IsDigit(c) == c \in HalfDigits \cup FullDigits

\* The regex class \w on str patterns: letters of any script, digits, "_".
IsWordChar(c) == c \notin (Whitespace \cup {"(", ")", "FWLP", "FWRP", "%", ".", "-", "#"})

\* s[i..] starts with tok
MatchAt(s, i, tok) ==
    /\ i + Len(tok) - 1 <= Len(s)
    /\ \A k \in 1..Len(tok) : s[i + k - 1] = tok[k]

\* tok in s
Contains(s, tok) == \E i \in 1..(Len(s) + 1) : MatchAt(s, i, tok)

RECURSIVE ReplaceFrom(_, _, _, _)
ReplaceFrom(s, i, old, new) ==
    IF i > Len(s) THEN <<>>
    ELSE IF MatchAt(s, i, old)
         THEN new \o ReplaceFrom(s, i + Len(old), old, new)
         ELSE <<s[i]>> \o ReplaceFrom(s, i + 1, old, new)

\* str.replace(old, new): leftmost occurrences, not overlapping, one pass.
Replace(s, old, new) == ReplaceFrom(s, 1, old, new)

RECURSIVE LStrip(_)
LStrip(s) == IF s # <<>> /\ Head(s) \in Whitespace THEN LStrip(Tail(s)) ELSE s

RECURSIVE RStrip(_)
RStrip(s) ==
    IF s # <<>> /\ s[Len(s)] \in Whitespace THEN RStrip(SubSeq(s, 1, Len(s) - 1)) ELSE s

\* str.strip()
Strip(s) == RStrip(LStrip(s))

\* re.sub(r"\s+", "", s)
RemoveWhitespace(s) == SelectSeq(s, LAMBDA c : c \notin Whitespace)

\* the translation table of _fw_to_hw_digits (and of lines 478-481)
FwDigit(c) ==
    CASE c = "FW_0" -> "0" [] c = "FW_1" -> "1" [] c = "FW_2" -> "2"
      [] c = "FW_3" -> "3" [] c = "FW_4" -> "4" [] c = "FW_5" -> "5"
      [] c = "FW_6" -> "6" [] c = "FW_7" -> "7" [] c = "FW_8" -> "8"
      [] c = "FW_9" -> "9" [] OTHER -> c

_fw_to_hw_digits(s) == [i \in 1..Len(s) |-> FwDigit(s[i])]

\* str.upper() on the modelled characters
UpperChar(c) ==
    CASE c = "a" -> "A" [] c = "b" -> "B" [] c = "c" -> "C" [] c = "d" -> "D"
      [] c = "h" -> "H" [] c = "fw_h" -> "FW_H" [] OTHER -> c

\* the translation table of lines 474-477: full-width capitals to ASCII
FwAlpha(c) ==
    CASE c = "FW_A" -> "A" [] c = "FW_H" -> "H" [] c = "FW_D" -> "D" [] OTHER -> c

RECURSIVE SubWordHDFrom(_, _)
SubWordHDFrom(s, i) ==
    IF i > Len(s) THEN <<>>
    ELSE IF /\ MatchAt(s, i, <<"H", "D">>)
            /\ (i = 1 \/ ~IsWordChar(s[i - 1]))
            /\ (i + 2 > Len(s) \/ ~IsWordChar(s[i + 2]))
         THEN SubWordHDFrom(s, i + 2)
         ELSE <<s[i]>> \o SubWordHDFrom(s, i + 1)

\* re.sub(r"\bHD\b", "", s)
SubWordHD(s) == SubWordHDFrom(s, 1)

(***************************************************************************)
(* normalize_name, lines 465-485, statement by statement.                  *)
(***************************************************************************)
KABUSHIKIGAISHA == <<"KABU", "SHIKI", "KAI", "SHA">>
HOLDINGS_KANA == <<"HO", "CHOON", "RU", "DE", "SMALL_I", "N_KANA", "GU", "SU">>
HOLDINGS_EN == <<"H", "O", "L", "D", "I", "N", "G", "S">>
HLDGS == <<"H", "L", "D", "G", "S">>

normalize_name(s) ==
    LET s1 == Strip(s)
        s2 == Replace(s1, <<"IDSP">>, <<" ">>)
        s3 == RemoveWhitespace(s2)
        s4 == Replace(Replace(Replace(s3, KABUSHIKIGAISHA, <<>>),
                              <<"(", "KABU", ")">>, <<>>),
                      <<"FWLP", "KABU", "FWRP">>, <<>>)
        s5 == Replace(Replace(s4, <<"FWLP">>, <<"(">>), <<"FWRP">>, <<")">>)
        s6 == [i \in 1..Len(s5) |-> UpperChar(s5[i])]
        s7 == [i \in 1..Len(s6) |-> FwAlpha(s6[i])]
        s8 == [i \in 1..Len(s7) |-> FwDigit(s7[i])]
        s9 == Replace(Replace(Replace(s8, HOLDINGS_KANA, <<>>), HOLDINGS_EN, <<>>),
                      HLDGS, <<>>)
    IN  Replace(SubWordHD(s9), <<"H", "D">>, <<>>)

(***************************************************************************)
(* load_master_csv, lines 487-520.  The registry file is                   *)
(*   [exists, fieldnames, rows]: fieldnames is the list of the header      *)
(*   line's names, None for a file with no header line                     *)
(*   (csv.DictReader.fieldnames), rows are the data rows as                *)
(*   [code, name] (the value None when the header has no such column).     *)
(* The outcome is [kind, exact, partial]:                                  *)
(*   "exit"    sys.exit(1), line 518                                       *)
(*   "raise"   an exception leaves load_master_csv (TypeError, line 498)   *)
(*   "warning" line 499-500, the empty registry                            *)
(*   "ok"      line 520                                                    *)
(* exact is a function from normalized names to codes (the dict), partial  *)
(* the list of <<code4, name, n>>.                                         *)
(***************************************************************************)
\* x in a list
InSeq(x, s) == \E i \in 1..Len(s) : s[i] = x

EmptyDict == [k \in {} |-> None]

DictSet(d, k, v) == [x \in (DOMAIN d) \cup {k} |-> IF x = k THEN v ELSE d[x]]

\* (r.get(col) or "").strip()
Field(r, col) == IF r[col] = None THEN <<>> ELSE Strip(r[col])

\* re.sub(r"\D", "", code)[:4]
Code4(code) ==
    LET digits == SelectSeq(code, IsDigit)
    IN  SubSeq(digits, 1, IF Len(digits) < 4 THEN Len(digits) ELSE 4)

RECURSIVE LoadRows(_, _, _, _)
LoadRows(rows, i, exact, partial) ==
    IF i > Len(rows) THEN [kind |-> "ok", exact |-> exact, partial |-> partial]
    ELSE LET code == Field(rows[i], "code")
             name == Field(rows[i], "name")
             code4 == Code4(code)
             n == normalize_name(name)
         IN  IF Len(code4) # 4 \/ name = <<>> THEN LoadRows(rows, i + 1, exact, partial)
             ELSE IF n # <<>>
                  THEN LoadRows(rows, i + 1, DictSet(exact, n, code4),
                                Append(partial, <<code4, name, n>>))
                  ELSE LoadRows(rows, i + 1, exact, partial)

\* a header without a required field treated as the missing file is
load_master_csv_Fatal(file) ==
    IF ~file.exists THEN [kind |-> "exit", exact |-> EmptyDict, partial |-> <<>>]
    ELSE IF file.fieldnames = None
         THEN [kind |-> "raise", exact |-> EmptyDict, partial |-> <<>>]
    ELSE IF ~InSeq("code", file.fieldnames) \/ ~InSeq("name", file.fieldnames)
         THEN [kind |-> "exit", exact |-> EmptyDict, partial |-> <<>>]
    ELSE LoadRows(file.rows, 1, EmptyDict, <<>>)

load_master_csv(file) ==
    IF ~file.exists THEN [kind |-> "exit", exact |-> EmptyDict, partial |-> <<>>]
    ELSE IF file.fieldnames = None
         THEN [kind |-> "raise", exact |-> EmptyDict, partial |-> <<>>]
    ELSE IF ~InSeq("code", file.fieldnames) \/ ~InSeq("name", file.fieldnames)
         THEN [kind |-> "warning", exact |-> EmptyDict, partial |-> <<>>]
    ELSE LoadRows(file.rows, 1, EmptyDict, <<>>)

(***************************************************************************)
(* resolve_code, lines 522-541: <<code or None, status>>.                  *)
(***************************************************************************)
\* lines 528-531: the codes of the entries in substring containment, in order
Hits(key, partial) ==
    LET hit(e) == key # <<>> /\ (Contains(e[3], key) \/ Contains(key, e[3]))
        hitEntries == SelectSeq(partial, hit)
    IN  [i \in 1..Len(hitEntries) |-> hitEntries[i][1]]

\* the length guard placed after the classification of the hits
resolve_code_ScanFirst(name, exact, partial) ==
    LET key == normalize_name(name)
        hits == Hits(key, partial)
    IN  IF key \in DOMAIN exact THEN <<exact[key], "EXACT">>
        ELSE IF Len(hits) = 1 THEN <<hits[1], "PARTIAL">>
        ELSE IF Len(hits) >= 2 THEN <<None, "AMBIGUOUS">>
        ELSE IF Len(key) <= 2 THEN <<None, "TOO_SHORT">>
        ELSE <<None, "NOT_FOUND">>

resolve_code(name, exact, partial) ==
    LET key == normalize_name(name)
        hits == Hits(key, partial)
    IN  IF key \in DOMAIN exact THEN <<exact[key], "EXACT">>
        ELSE IF Len(key) <= 2 THEN <<None, "TOO_SHORT">>
        ELSE IF Len(hits) = 1 THEN <<hits[1], "PARTIAL">>
        ELSE IF Len(hits) >= 2 THEN <<None, "AMBIGUOUS">>
        ELSE <<None, "NOT_FOUND">>

(***************************************************************************)
(* Dates: datetime.date as <<year, month, day>>, and the part of           *)
(* dateutil.relativedelta the locators use.                                *)
(***************************************************************************)
IsLeap(y) == (y % 4 = 0 /\ y % 100 # 0) \/ y % 400 = 0

\* calendar.monthrange(y, m)[1]
DaysInMonth(y, m) ==
    IF m = 2 THEN (IF IsLeap(y) THEN 29 ELSE 28)
    ELSE IF m \in {4, 6, 9, 11} THEN 30 ELSE 31

\* dt.date(y, m, d) returns; otherwise it raises ValueError
ValidDate(y, m, d) ==
    /\ y \in 1..9999 /\ m \in 1..12
    /\ d >= 1 /\ d <= DaysInMonth(y, m)

Min(a, b) == IF a < b THEN a ELSE b

\* date + relativedelta(months=n): the month moved, the day clamped to the month
AddMonths(date, n) ==
    LET idx == date[1] * 12 + (date[2] - 1) + n
        y == idx \div 12
        m == (idx % 12) + 1
    IN  <<y, m, Min(DaysInMonth(y, m), date[3])>>

\* date + timedelta(days=-1)
PrevDay(date) ==
    IF date[3] > 1 THEN <<date[1], date[2], date[3] - 1>>
    ELSE IF date[2] > 1 THEN <<date[1], date[2] - 1, DaysInMonth(date[1], date[2] - 1)>>
    ELSE <<date[1] - 1, 12, 31>>

\* date + relativedelta(day=31): the day set to 31, clamped to the month
LastDayOf(date) == <<date[1], date[2], Min(DaysInMonth(date[1], date[2]), 31)>>

\* date comparison, a < b
DateLess(a, b) ==
    \/ a[1] < b[1]
    \/ a[1] = b[1] /\ a[2] < b[2]
    \/ a[1] = b[1] /\ a[2] = b[2] /\ a[3] < b[3]

(***************************************************************************)
(* parse_jp_date, lines 67-80: [raises, value].  The two patterns are      *)
(* matched on the characters as re.search matches them: leftmost start,    *)
(* greedy digit groups.                                                    *)
(***************************************************************************)
\* int() of one half-width digit
DigitOf(h) ==
    CASE h = "0" -> 0 [] h = "1" -> 1 [] h = "2" -> 2 [] h = "3" -> 3
      [] h = "4" -> 4 [] h = "5" -> 5 [] h = "6" -> 6 [] h = "7" -> 7
      [] h = "8" -> 8 [] h = "9" -> 9

\* int() of one digit, full-width or not
DigitVal(c) == DigitOf(FwDigit(c))

DigitAt(s, i) == i <= Len(s) /\ IsDigit(s[i])

RECURSIVE SkipWs(_, _)
\* \s* from position i: the position after the whitespace
SkipWs(s, i) == IF i <= Len(s) /\ s[i] \in Whitespace THEN SkipWs(s, i + 1) ELSE i

\* (\d{1,2}) at position i, greedy: [ok, val, next]
Digits12(s, i) ==
    IF ~DigitAt(s, i) THEN [ok |-> FALSE, val |-> 0, next |-> i]
    ELSE IF DigitAt(s, i + 1)
         THEN [ok |-> TRUE, val |-> DigitVal(s[i]) * 10 + DigitVal(s[i + 1]), next |-> i + 2]
         ELSE [ok |-> TRUE, val |-> DigitVal(s[i]), next |-> i + 1]

\* the end of the pattern (\d{4})\s*NEN\s*(\d{1,2})\s*GATSU begun at i, with a the
\* place of NEN, mo the month group and b the place of GATSU: [ok, y, mo, next]
YearMonthEnd(s, i, a, mo, b) ==
    IF /\ \A k \in 0..3 : DigitAt(s, i + k)
       /\ a <= Len(s) /\ s[a] = "NEN" /\ mo.ok /\ b <= Len(s) /\ s[b] = "GATSU"
    THEN [ok |-> TRUE,
          y |-> DigitVal(s[i]) * 1000 + DigitVal(s[i + 1]) * 100
                  + DigitVal(s[i + 2]) * 10 + DigitVal(s[i + 3]),
          mo |-> mo.val, next |-> b + 1]
    ELSE [ok |-> FALSE, y |-> 0, mo |-> 0, next |-> i]

YearMonthMonth(s, i, a, mo) == YearMonthEnd(s, i, a, mo, SkipWs(s, mo.next))

YearMonthYear(s, i, a) == YearMonthMonth(s, i, a, Digits12(s, SkipWs(s, a + 1)))

\* (\d{4})\s*NEN\s*(\d{1,2})\s*GATSU at position i: [ok, y, mo, next]
YearMonthAt(s, i) == YearMonthYear(s, i, SkipWs(s, i + 4))

\* the end of the day pattern after the year and month ym, d the day group and e
\* the place of NICHI: [ok, y, mo, d]
DayPatternEnd(s, ym, d, e) ==
    IF ym.ok /\ d.ok /\ e <= Len(s) /\ s[e] = "NICHI"
    THEN [ok |-> TRUE, y |-> ym.y, mo |-> ym.mo, d |-> d.val]
    ELSE [ok |-> FALSE, y |-> 0, mo |-> 0, d |-> 0]

DayPatternDay(s, ym, d) == DayPatternEnd(s, ym, d, SkipWs(s, d.next))

DayPatternFrom(s, ym) == DayPatternDay(s, ym, Digits12(s, SkipWs(s, ym.next)))

\* the day pattern of line 70 at position i: [ok, y, mo, d]
DayPatternAt(s, i) == DayPatternFrom(s, YearMonthAt(s, i))

\* the end of the end-of-month pattern, e the place of MATSU: [ok, y, mo]
EndPatternEnd(s, ym, e) ==
    IF ym.ok /\ e <= Len(s) /\ s[e] = "MATSU"
    THEN [ok |-> TRUE, y |-> ym.y, mo |-> ym.mo]
    ELSE [ok |-> FALSE, y |-> 0, mo |-> 0]

EndPatternFrom(s, ym) == EndPatternEnd(s, ym, SkipWs(s, ym.next))

\* the end-of-month pattern of line 75 at position i: [ok, y, mo]
EndPatternAt(s, i) == EndPatternFrom(s, YearMonthAt(s, i))

\* the smallest member of a set of positions
FirstOf(S) == CHOOSE i \in S : \A j \in S : i <= j

\* lines 71-73 on the match m of the day pattern
DayValue(m) ==
    IF ValidDate(m.y, m.mo, m.d)
    THEN [raises |-> FALSE, value |-> <<m.y, m.mo, m.d>>]
    ELSE [raises |-> TRUE, value |-> None]

\* dt.date(y, mo, 1) + relativedelta(months=1, days=-1), lines 77-78 and 150
MonthEnd(first) == PrevDay(AddMonths(first, 1))

\* lines 76-78 on the match m of the end-of-month pattern
EndValue(m) ==
    IF ValidDate(m.y, m.mo, 1) /\ ValidDate(AddMonths(<<m.y, m.mo, 1>>, 1)[1], 1, 1)
    THEN [raises |-> FALSE, value |-> MonthEnd(<<m.y, m.mo, 1>>)]
    ELSE [raises |-> TRUE, value |-> None]

DayStarts(text) == {i \in 1..Len(text) : DayPatternAt(text, i).ok}

EndStarts(text) == {i \in 1..Len(text) : EndPatternAt(text, i).ok}

\* lines 70-80 on the stripped text
ParseStripped(text) ==
    IF DayStarts(text) # {} THEN DayValue(DayPatternAt(text, FirstOf(DayStarts(text))))
    ELSE IF EndStarts(text) # {} THEN EndValue(EndPatternAt(text, FirstOf(EndStarts(text))))
    ELSE [raises |-> FALSE, value |-> None]

parse_jp_date(text0) == ParseStripped(Strip(text0))

(***************************************************************************)
(* find_pdf_sbi, lines 82-107.  The index page is [ok, links]: ok is FALSE *)
(* when http_get raises, links are its a[href] elements in document order, *)
(* each [href, text]; an href is the list of its parts, of which the       *)
(* filter reads the path part and the extension.  The outcome is           *)
(* [kind, url, date], kind "ok" or "raise".                                *)
(***************************************************************************)
MonthlyPath == "/data/fund_pdf/monthly/"

\* str.lower() on the extensions modelled
LowerExt(x) == IF x = ".PDF" THEN ".pdf" ELSE x

\* lines 90-93
SurvivesFilter(href) ==
    /\ InSeq(MonthlyPath, href)
    /\ href # <<>> /\ LowerExt(href[Len(href)]) = ".pdf"

\* the sort key of line 104, as <<flag, date>>
SortKey(c) == <<c.d # None, IF c.d # None THEN c.d ELSE <<1900, 1, 1>>>>

\* tuple comparison of two keys, a < b (False < True)
KeyLess(a, b) ==
    \/ ~a[1] /\ b[1]
    \/ a[1] = b[1] /\ DateLess(a[2], b[2])

\* x put behind every member whose key is not less than its own
InsertDesc(sorted, x) ==
    LET smaller == {j \in 1..Len(sorted) : KeyLess(SortKey(sorted[j]), SortKey(x))}
        at == IF smaller = {} THEN Len(sorted) + 1
              ELSE CHOOSE j \in smaller : \A k \in smaller : j <= k
    IN  SubSeq(sorted, 1, at - 1) \o <<x>> \o SubSeq(sorted, at, Len(sorted))

RECURSIVE SortDescFrom(_, _, _)
SortDescFrom(cs, i, sorted) ==
    IF i > Len(cs) THEN sorted ELSE SortDescFrom(cs, i + 1, InsertDesc(sorted, cs[i]))

\* list.sort(key=..., reverse=True): descending and stable
SortDesc(cs) == SortDescFrom(cs, 1, <<>>)

Raise == [kind |-> "raise", url |-> None, date |-> None]

\* lines 88-93: the links that pass the filter, in document order
Kept(page) == SelectSeq(page.links, LAMBDA a : SurvivesFilter(a.href))

\* lines 95-99
Candidates(kept) ==
    [i \in 1..Len(kept) |->
       [d |-> parse_jp_date(kept[i].text).value, url |-> kept[i].href,
        text |-> kept[i].text]]

\* lines 104-107
Latest(sorted) == [kind |-> "ok", url |-> sorted[1].url, date |-> sorted[1].d]

\* lines 95-107 on the links kept
FromKept(kept) ==
    IF \E i \in 1..Len(kept) : parse_jp_date(kept[i].text).raises THEN Raise
    ELSE IF kept = <<>> THEN Raise
    ELSE Latest(SortDesc(Candidates(kept)))

find_pdf_sbi(page) == IF ~page.ok THEN Raise ELSE FromKept(Kept(page))

(***************************************************************************)
(* find_pdf_sparx_backtrack, lines 109-126.  head[i] is what the i-th      *)
(* http_head call returns (lines 57-63: a boolean, never an exception).    *)
(* A URL is the year-month number put into the template (strftime          *)
(* "%Y%m": 202412).  The outcome is [kind, url, date, checks]; checks      *)
(* lists the URLs handed to http_head, in order.                           *)
(***************************************************************************)
ProbeFirst == 1
ProbeStop == 4

YmStr(date) == date[1] * 100 + date[2]

RECURSIVE ProbeFrom(_, _, _, _)
ProbeFrom(today, head, i, checks) ==
    IF i >= ProbeStop
    THEN [kind |-> "raise", url |-> None, date |-> None, checks |-> checks]
    ELSE LET target_month == AddMonths(today, 0 - i)
             url == YmStr(target_month)
         IN  IF head[Len(checks) + 1]
             THEN [kind |-> "ok", url |-> url, date |-> LastDayOf(target_month),
                   checks |-> Append(checks, url)]
             ELSE ProbeFrom(today, head, i + 1, Append(checks, url))

\* the walk begun at the current month, the check beyond the answers given failing
find_pdf_sparx_backtrack_FromCurrent(today, head) ==
    ProbeFrom(today, Append(head, FALSE), 0, <<>>)

find_pdf_sparx_backtrack(today, head) == ProbeFrom(today, head, ProbeFirst, <<>>)

(***************************************************************************)
(* extract_top10_holdings, lines 158-206.  The document is the list of the *)
(* lines of full_text (line 166).  Further characters by name:             *)
(*   "KUMI" "IRE" "JOU" "KURAI" "MEI" "GARA"  the kanji of extract_trigger *)
(*   "TOU" "REPOTO" "HA" "GO" "CHUUI" "KOME"  the words and the mark of    *)
(*   the skip keywords of line 24                                          *)
(***************************************************************************)
RECURSIVE SkipDigits(_, _)
\* \d+ from position i, greedy: the position after the digits
SkipDigits(s, i) == IF DigitAt(s, i) THEN SkipDigits(s, i + 1) ELSE i

RECURSIVE NumVal(_, _, _)
\* int() of the digits s[i..j-1]
NumVal(s, i, j) == IF j <= i THEN 0 ELSE NumVal(s, i, j - 1) * 10 + DigitVal(s[j - 1])

RECURSIVE NameStop(_, _)
\* the first position from i that [^\d%] does not take
NameStop(s, i) ==
    IF i > Len(s) \/ IsDigit(s[i]) \/ s[i] = "%" THEN i ELSE NameStop(s, i + 1)

NoMatch == [ok |-> FALSE, rank |-> 0, name |-> <<>>, end |-> 0]

(***************************************************************************)
(* The pattern of line 173 tried at position i, as the backtracking        *)
(* matcher settles it: [ok, rank, name, end], name = group(2).strip().     *)
(* The rank takes two digits when two stand there; whitespace must follow. *)
(* The name cannot pass a digit or "%", so the ratio starts at the first   *)
(* digit j after the rank's whitespace; the stretch before j must end in   *)
(* whitespace and hold a name between two stretches of whitespace.         *)
(***************************************************************************)
PatAt(s, i) ==
    LET r == Digits12(s, i)
        a == r.next
        j == NameStop(s, a)
        region == SubSeq(s, a, j - 1)
        e1 == SkipDigits(s, j)
        frac == e1 <= Len(s) /\ s[e1] = "." /\ DigitAt(s, e1 + 1)
        e2 == IF frac THEN SkipDigits(s, e1 + 1) ELSE e1
    IN  IF /\ r.ok
           /\ a <= Len(s) /\ s[a] \in Whitespace
           /\ DigitAt(s, j)
           /\ s[j - 1] \in Whitespace
           /\ (Strip(region) # <<>> \/ Len(region) >= 3)
           /\ e2 <= Len(s) /\ s[e2] = "%"
        THEN [ok |-> TRUE, rank |-> r.val, name |-> Strip(region), end |-> e2 + 1]
        ELSE NoMatch

RECURSIVE FindIter(_, _)
\* list(pat.finditer(ln)) from position i: the matches left to right, not overlapping
FindIter(s, i) ==
    IF i > Len(s) THEN <<>>
    ELSE LET m == PatAt(s, i)
         IN  IF m.ok THEN <<m>> \o FindIter(s, m.end) ELSE FindIter(s, i + 1)

\* line 167
CleanLines(raw) ==
    SelectSeq([k \in 1..Len(raw) |-> Strip(raw[k])], LAMBDA ln : ln # <<>>)

RECURSIVE AppendMatches(_, _, _)
\* lines 196-201 over the matches kept
AppendMatches(holdings, matches, k) ==
    IF k > Len(matches) THEN holdings
    ELSE LET m == matches[k]
         IN  AppendMatches(IF m.rank >= 1 /\ m.rank <= 10 /\ ~InSeq(m.name, holdings)
                           THEN Append(holdings, m.name) ELSE holdings,
                           matches, k + 1)

\* every match of the line kept
KeptMatches_All(matches) == matches

\* line 193-194
KeptMatches(matches) ==
    IF Len(matches) >= 2 THEN <<matches[Len(matches)]>> ELSE matches

\* One turn of the loop of lines 175-204 on line ln; st is
\* [in_block, holdings, stop], stop set by the break of line 204.
LineStep(st, ln, trigger, skip_keywords) ==
    IF Contains(ln, trigger) THEN [st EXCEPT !.in_block = TRUE]
    ELSE IF ~st.in_block THEN st
    ELSE IF \E sk \in skip_keywords : Contains(ln, sk) THEN st
    ELSE LET matches == FindIter(ln, 1)
         IN  IF matches = <<>> THEN st
             ELSE LET h == AppendMatches(st.holdings, KeptMatches(matches), 1)
                  IN  [st EXCEPT !.holdings = h, !.stop = Len(h) >= 10]

First10(s) == SubSeq(s, 1, Min(Len(s), 10))

RECURSIVE ScanLines(_, _, _, _, _)
ScanLines(lines, i, st, trigger, skip_keywords) ==
    IF i > Len(lines) \/ st.stop THEN First10(st.holdings)
    ELSE ScanLines(lines, i + 1, LineStep(st, lines[i], trigger, skip_keywords),
                   trigger, skip_keywords)

ScanStart == [in_block |-> FALSE, holdings |-> <<>>, stop |-> FALSE]

extract_top10_holdings(raw, trigger, skip_keywords) ==
    ScanLines(CleanLines(raw), 1, ScanStart, trigger, skip_keywords)

(***************************************************************************)
(* extract_top10_holdings_sparx_table, lines 212-276.  A page is           *)
(* [tables, fail]: the ruled tables pdfplumber finds on it, top to bottom, *)
(* each a list of rows of cells (a cell is its text, or None where the     *)
(* grid has no cell), and which of the two library calls raise on it:      *)
(* "none", "extract_table" (line 235 only) or "both" (lines 235 and 242).  *)
(***************************************************************************)
\* c or ""
CellText(c) == IF c = None THEN <<>> ELSE c

RECURSIVE JoinSpace(_, _)
\* " ".join(parts), from part i
JoinSpace(parts, i) ==
    IF i > Len(parts) THEN <<>>
    ELSE IF i = Len(parts) THEN parts[i]
    ELSE parts[i] \o <<" ">> \o JoinSpace(parts, i + 1)

\* line 247
Flatten(t) ==
    JoinSpace([r \in 1..Len(t) |->
                 JoinSpace([c \in 1..Len(t[r]) |-> CellText(t[r][c])], 1)], 1)

\* re.search(r"\b" tok r"\b", s) for a token of word characters
HasWord(s, tok) ==
    \E i \in 1..Len(s) :
        /\ MatchAt(s, i, tok)
        /\ (i = 1 \/ ~IsWordChar(s[i - 1]))
        /\ (i + Len(tok) > Len(s) \/ ~IsWordChar(s[i + Len(tok)]))

\* line 249
LooksRanked(t) ==
    LET flat_hw == _fw_to_hw_digits(Flatten(t))
    IN  HasWord(flat_hw, <<"1">>) /\ HasWord(flat_hw, <<"1", "0">>)

RECURSIVE CellCount(_, _)
\* the cells of the table's grid, from row r on
CellCount(t, r) ==
    IF r > Len(t) THEN 0
    ELSE Cardinality({c \in 1..Len(t[r]) : t[r][c] # None}) + CellCount(t, r + 1)

\* no table: None and the empty list alike (lines 239 and 253 test "not tbl")
NoTable == <<>>

\* the table of fewest cells, the first of them
extract_table_Smallest(tables) ==
    IF tables = <<>> THEN NoTable
    ELSE LET best == CHOOSE i \in 1..Len(tables) :
                       /\ \A j \in 1..Len(tables) :
                             CellCount(tables[i], 1) <= CellCount(tables[j], 1)
                       /\ \A j \in 1..(i - 1) :
                             CellCount(tables[j], 1) > CellCount(tables[i], 1)
         IN  tables[best]

\* page.extract_table(table_settings), line 235, when it does not raise:
\* pdfplumber returns the table of most cells, the first of them, None for none
extract_table(tables) ==
    IF tables = <<>> THEN NoTable
    ELSE LET best == CHOOSE i \in 1..Len(tables) :
                       /\ \A j \in 1..Len(tables) :
                             CellCount(tables[i], 1) >= CellCount(tables[j], 1)
                       /\ \A j \in 1..(i - 1) :
                             CellCount(tables[j], 1) < CellCount(tables[i], 1)
         IN  tables[best]

\* lines 245-251: the first table that looks ranked
FirstRanked(tables) ==
    LET R == {i \in 1..Len(tables) : LooksRanked(tables[i])}
    IN  IF R = {} THEN NoTable ELSE tables[CHOOSE i \in R : \A j \in R : i <= j]

\* lines 233-251: tbl
PageTable(page) ==
    LET tbl == IF page.fail # "none" THEN NoTable ELSE extract_table(page.tables)
    IN  IF tbl # NoTable THEN tbl
        ELSE FirstRanked(IF page.fail = "both" THEN <<>> ELSE page.tables)

\* lines 263-268 on the stripped first cell: the rank, 0 when it is no rank
RankOf(r0) ==
    LET hw == _fw_to_hw_digits(r0)
    IN  IF Len(hw) \in 1..2 /\ \A k \in 1..Len(hw) : IsDigit(hw[k])
        THEN NumVal(hw, 1, Len(hw) + 1) ELSE 0

RECURSIVE RowsHoldings(_, _, _)
\* lines 257-271 from row k on
RowsHoldings(holdings, tbl, k) ==
    IF k > Len(tbl) THEN holdings
    ELSE LET row == tbl[k]
             r0 == Strip(CellText(row[1]))
             r1 == Strip(CellText(row[2]))
             rank == RankOf(r0)
         IN  IF Len(row) < 2 THEN RowsHoldings(holdings, tbl, k + 1)
             ELSE IF rank >= 1 /\ rank <= 10 /\ r1 # <<>> /\ ~InSeq(r1, holdings)
                  THEN RowsHoldings(Append(holdings, r1), tbl, k + 1)
                  ELSE RowsHoldings(holdings, tbl, k + 1)

\* One turn of the loop of lines 231-274 on a page; st is [holdings, stop].
PageStep(st, page) ==
    LET tbl == PageTable(page)
    IN  IF tbl = NoTable THEN st
        ELSE LET h == RowsHoldings(st.holdings, tbl, 1)
             IN  [holdings |-> h, stop |-> Len(h) >= 10]

RECURSIVE ScanPages(_, _, _)
ScanPages(pages, i, st) ==
    IF i > Len(pages) \/ st.stop THEN First10(st.holdings)
    ELSE ScanPages(pages, i + 1, PageStep(st, pages[i]))

PagesStart == [holdings |-> <<>>, stop |-> FALSE]

extract_top10_holdings_sparx_table(pages) == ScanPages(pages, 1, PagesStart)

(***************************************************************************)
(* _find_latest_jp_date_in_text, lines 128-154: the latest of the dates    *)
(* the two patterns find anywhere in the text; a match that is no calendar *)
(* date is dropped by the try/except of lines 140-144 and 148-152.         *)
(***************************************************************************)
\* lines 139-144 on a match m of the day pattern: the date, when there is one
DayDate(m) == IF m.ok /\ ValidDate(m.y, m.mo, m.d) THEN {<<m.y, m.mo, m.d>>} ELSE {}

\* lines 147-152 on a match m of the end-of-month pattern
EndDate(m) ==
    IF /\ m.ok /\ ValidDate(m.y, m.mo, 1)
       /\ ValidDate(AddMonths(<<m.y, m.mo, 1>>, 1)[1], 1, 1)
    THEN {MonthEnd(<<m.y, m.mo, 1>>)} ELSE {}

\* line 154
MaxDate(dates) ==
    IF dates = {} THEN None ELSE CHOOSE d \in dates : \A e \in dates : ~DateLess(d, e)

_find_latest_jp_date_in_text(text) ==
    IF text = <<>> THEN None
    ELSE MaxDate(UNION {DayDate(DayPatternAt(text, i)) \cup EndDate(EndPatternAt(text, i)) :
                          i \in 1..Len(text)})

(***************************************************************************)
(* extract_top10_holdings_hifumi_html, lines 278-461, on the parsed page:  *)
(* [text, tables, dls, scripts].  A table is the list of its tr rows, a    *)
(* row the list of its cells [th, text] in document order; a dl is         *)
(* [dts, dds, parent], parent the lines of the text of its parent element; *)
(* scripts is [pat1, pat2], the matches [name, code] that the patterns of  *)
(* lines 427-437 find in the joined script text.  An item is               *)
(* [rank, name, code]; NoRank is the rank None.  Texts are what get_text   *)
(* with strip=True returns.  Further characters by name:                   *)
(*   "MEI" "GARA" "NA"  the kanji of the name header of line 320           *)
(*   "KO" "CHOON" "DO"  the katakana of the code header of line 322        *)
(*   "JUN" "KURAI"  the kanji of the rank header of line 336               *)
(***************************************************************************)
NoRank == -1

MEIGARAMEI == <<"MEI", "GARA", "NA">>
MEIGARA == <<"MEI", "GARA">>
KOODO == <<"KO", "CHOON", "DO">>
JUNI == <<"JUN", "KURAI">>

\* lines 320 and 332
IsNameHeader(h) == Contains(h, MEIGARAMEI)

\* lines 322 and 334
IsCodeHeader(h) == (Contains(h, MEIGARA) /\ Contains(h, KOODO)) \/ Strip(h) = KOODO

\* line 336
IsRankHeader(h) ==
    Contains(Strip(h), JUNI) \/ Strip(h) \in {<<"#">>, <<"N", "o">>, <<"N", "O">>, <<"JUN">>}

\* _norm_code, lines 290-294: the first four consecutive digits, <<>> for None
_norm_code(s) ==
    LET t == _fw_to_hw_digits(Strip(s))
        starts == {i \in 1..(Len(t) - 3) : \A k \in 0..3 : t[i + k] \in HalfDigits}
    IN  IF starts = {} THEN <<>>
        ELSE LET i == CHOOSE a \in starts : \A b \in starts : a <= b
             IN  SubSeq(t, i, i + 3)

\* the rank of lines 362-365, 367-370 and 412-415: a text of one or two digits
ParseRank(s) ==
    LET t == _fw_to_hw_digits(Strip(s))
    IN  IF Len(t) \in {1, 2} /\ \A k \in 1..Len(t) : t[k] \in HalfDigits
        THEN IF Len(t) = 1 THEN DigitVal(t[1]) ELSE DigitVal(t[1]) * 10 + DigitVal(t[2])
        ELSE NoRank

\* _add without the loop of lines 300-302
_add_NoDedupe(items, rank, name, code) ==
    IF name = <<>> \/ code = <<>> THEN items
    ELSE Append(items, [rank |-> rank, name |-> Strip(name), code |-> code])

\* _add, lines 296-303
_add(items, rank, name, code) ==
    IF name = <<>> \/ code = <<>> THEN items
    ELSE IF \E k \in 1..Len(items) : items[k].code = code THEN items
    ELSE Append(items, [rank |-> rank, name |-> Strip(name), code |-> code])

CellTexts(row) == [k \in 1..Len(row) |-> row[k].text]

RECURSIVE ThCells(_, _)
\* table.find_all(["th"]), line 308: the texts of the th cells from row r on
ThCells(table, r) ==
    IF r > Len(table) THEN <<>>
    ELSE LET row == table[r]
             ths == {k \in 1..Len(row) : row[k].th}
             F[k \in 0..Len(row)] ==
                 IF k = 0 THEN <<>>
                 ELSE IF k \in ths THEN Append(F[k - 1], row[k].text) ELSE F[k - 1]
         IN  F[Len(row)] \o ThCells(table, r + 1)

\* lines 308-314
Headers(table) ==
    LET ths == ThCells(table, 1)
    IN  IF ths # <<>> THEN ths
        ELSE IF table # <<>> THEN CellTexts(table[1]) ELSE <<>>

\* lines 330-337, positions counted from 1 and 0 for None
NameIdx(headers) ==
    LET S == {i \in 1..Len(headers) : IsNameHeader(headers[i])}
    IN  IF S = {} THEN 0 ELSE CHOOSE i \in S : \A j \in S : i <= j

CodeIdx(headers) ==
    LET S == {i \in 1..Len(headers) : IsCodeHeader(headers[i])}
    IN  IF S = {} THEN 0 ELSE CHOOSE i \in S : \A j \in S : i <= j

RankIdx(headers) ==
    LET S == {i \in 1..Len(headers) : IsRankHeader(headers[i])}
    IN  IF S = {} THEN 0 ELSE CHOOSE i \in S : \A j \in S : i <= j

\* the body of the loop of lines 340-372 on one row
TableRow(items, headers, row) ==
    LET cells == CellTexts(row)
        name_idx == NameIdx(headers)
        code_idx == CodeIdx(headers)
        rank_idx == RankIdx(headers)
        raw_name == Strip(cells[name_idx])
        raw_code == Strip(cells[code_idx])
        code4 == _norm_code(raw_code)
        rank == IF rank_idx # 0 /\ Len(cells) >= rank_idx
                THEN ParseRank(cells[rank_idx]) ELSE ParseRank(cells[1])
    IN  IF cells = <<>> THEN items
        ELSE IF Len(cells) < name_idx \/ Len(cells) < code_idx THEN items
        ELSE IF code4 = <<>> THEN items
        ELSE IF IsNameHeader(raw_name) /\ Contains(raw_code, MEIGARA) /\ Contains(raw_code, KOODO)
             THEN items
        ELSE _add(items, rank, raw_name, code4)

RECURSIVE TableRows(_, _, _, _)
\* lines 340-374, with the break of line 374
TableRows(items, headers, table, r) ==
    IF r > Len(table) \/ Len(items) >= 10 THEN items
    ELSE TableRows(TableRow(items, headers, table[r]), headers, table, r + 1)

RECURSIVE TablePass(_, _, _)
\* lines 306-377
TablePass(items, tables, t) ==
    IF t > Len(tables) \/ Len(items) >= 10 THEN items
    ELSE LET headers == Headers(tables[t])
         IN  IF \/ headers = <<>>
                \/ NameIdx(headers) = 0
                \/ CodeIdx(headers) = 0
             THEN TablePass(items, tables, t + 1)
             ELSE TablePass(TableRows(items, headers, tables[t], 1), tables, t + 1)

\* lines 387-392: the positions of the dt/dd pairs that enter mp
MpPairs(dl) == {i \in 1..Len(dl.dts) : dl.dts[i] # <<>> /\ dl.dds[i] # <<>>}

\* mp[k]: the value of the last pair with key k
MpGet(dl, k) ==
    LET S == {i \in MpPairs(dl) : dl.dts[i] = k}
    IN  dl.dds[CHOOSE i \in S : \A j \in S : i >= j]

\* lines 395-401, <<>> for None
NameVal(dl) ==
    LET S == {i \in MpPairs(dl) : IsNameHeader(dl.dts[i])}
    IN  IF S = {} THEN <<>> ELSE MpGet(dl, dl.dts[CHOOSE i \in S : \A j \in S : i <= j])

CodeVal(dl) ==
    LET S == {i \in MpPairs(dl) : IsCodeHeader(dl.dts[i])}
    IN  IF S = {} THEN <<>> ELSE MpGet(dl, dl.dts[CHOOSE i \in S : \A j \in S : i <= j])

\* lines 408-416: the first of the first five lines that is a rank
DlRank(dl) ==
    LET S == {i \in 1..Min(Len(dl.parent), 5) : ParseRank(dl.parent[i]) # NoRank}
    IN  IF S = {} THEN NoRank ELSE ParseRank(dl.parent[CHOOSE i \in S : \A j \in S : i <= j])

\* the body of the loop of lines 381-418 on one dl
DlStep(items, dl) ==
    IF dl.dts = <<>> \/ dl.dds = <<>> \/ Len(dl.dts) # Len(dl.dds) THEN items
    ELSE IF NameVal(dl) = <<>> \/ _norm_code(CodeVal(dl)) = <<>> THEN items
    ELSE _add(items, DlRank(dl), NameVal(dl), _norm_code(CodeVal(dl)))

RECURSIVE DlLoop(_, _, _)
DlLoop(items, dls, d) ==
    IF d > Len(dls) \/ Len(items) >= 10 THEN items
    ELSE DlLoop(DlStep(items, dls[d]), dls, d + 1)

\* lines 380-420
DlPass(items, dls) == IF Len(items) < 10 THEN DlLoop(items, dls, 1) ELSE items

RECURSIVE MatchLoop(_, _, _)
\* the loops of lines 439-444 and 447-452
MatchLoop(items, ms, k) ==
    IF k > Len(ms) \/ Len(items) >= 10 THEN items
    ELSE MatchLoop(_add(items, NoRank, Strip(ms[k].name), Strip(ms[k].code)), ms, k + 1)

\* lines 423-452
ScriptPass(items, scripts) ==
    IF Len(items) >= 10 THEN items
    ELSE LET a == MatchLoop(items, scripts.pat1, 1)
         IN  IF Len(a) < 10 THEN MatchLoop(a, scripts.pat2, 1) ELSE a

\* lines 455-457
NumberRanks(items) ==
    IF items # <<>> /\ \A k \in 1..Len(items) : items[k].rank = NoRank
    THEN [k \in 1..Len(items) |-> IF k <= 10 THEN [items[k] EXCEPT !.rank = k] ELSE items[k]]
    ELSE items

\* the key of line 460
RankKey(it) ==
    <<it.rank = NoRank, IF it.rank = NoRank \/ it.rank = 0 THEN 9999 ELSE it.rank>>

RankKeyLess(a, b) == (~a[1] /\ b[1]) \/ (a[1] = b[1] /\ a[2] < b[2])

RECURSIVE InsertByRank(_, _)
\* it put after the last item whose key is not greater
InsertByRank(sorted, it) ==
    IF sorted = <<>> THEN <<it>>
    ELSE IF RankKeyLess(RankKey(it), RankKey(sorted[Len(sorted)]))
         THEN Append(InsertByRank(SubSeq(sorted, 1, Len(sorted) - 1), it), sorted[Len(sorted)])
         ELSE Append(sorted, it)

RECURSIVE SortByRank(_, _)
\* items.sort of line 460: stable, ascending
SortByRank(items, k) ==
    IF k = 0 THEN <<>> ELSE InsertByRank(SortByRank(items, k - 1), items[k])

extract_top10_holdings_hifumi_html(html) ==
    LET items == ScriptPass(DlPass(TablePass(<<>>, html.tables, 1), html.dls), html.scripts)
        ranked == NumberRanks(items)
    IN  First10(SortByRank(ranked, Len(ranked)))

(***************************************************************************)
(* Inputs of the function-level specifications.                            *)
(***************************************************************************)
RECURSIVE Joins(_, _)
\* the concatenations of at most n members of P
Joins(P, n) ==
    IF n = 0 THEN {<<>>}
    ELSE LET prev == Joins(P, n - 1) IN prev \cup {p \o q : p \in prev, q \in P}

RECURSIVE SeqsUpTo(_, _)
\* the sequences of at most n members of S
SeqsUpTo(S, n) ==
    IF n = 0 THEN {<<>>}
    ELSE LET prev == SeqsUpTo(S, n - 1) IN prev \cup {Append(p, x) : p \in prev, x \in S}

MaxNameParts == 3

NamePieces ==
    {<<"H">>, <<"D">>, <<"(">>, <<")">>, <<"FWLP">>, <<"FWRP">>, <<"KABU">>,
     <<"SHIKI", "KAI", "SHA">>, <<" ">>, <<"A">>, <<"fw_h">>, <<"L", "D", "G", "S">>}

NormInputs == Joins(NamePieces, MaxNameParts)

MaxRows == 2

RowCodes == {<<"1", "1", "1", "1">>, <<"2", "2", "2", "2">>, <<"3", "3", "3">>,
             <<"1", "1", "-", "1", "1", "5">>}

RowNames == {<<"A", "B">>, <<"A", "B", "C">>, <<"A", "B", "C", "D">>,
             <<"X", "A", "B", "C">>, <<"H", "D">>}

RegistryRows == [code : RowCodes, name : RowNames]

QueryNames == {<<>>, <<"A">>, <<"A", "B">>, <<"A", "B", "H", "D">>, <<"A", "B", "C">>,
               <<"B", "C", "D">>, <<"X", "A", "B", "C", "D">>, <<"X", "Y", "Z">>}

DriverIdle ==
    /\ pc = "idle" /\ funds = <<>> /\ master = None /\ fundIdx = 0 /\ cur = None
    /\ results = <<>> /\ attempts = <<>> /\ errors = <<>>
    /\ resolverCalls = <<>> /\ stages = <<>>

(***************************************************************************)
(* normalize_name applied, and applied again to its own result.            *)
(***************************************************************************)
InitNorm ==
    /\ fn = "normalize_name" /\ input \in NormInputs
    /\ output = <<>> /\ called = FALSE /\ DriverIdle

ApplyNormalize ==
    /\ fn = "normalize_name" /\ Len(output) < 2
    /\ output' = Append(output, normalize_name(IF output = <<>> THEN input
                                                ELSE output[Len(output)]))
    /\ called' = TRUE
    /\ UNCHANGED <<fn, input>> /\ UNCHANGED driverVars

SpecNorm == InitNorm /\ [][ApplyNormalize]_vars

(***************************************************************************)
(* resolve_code applied to a name and the registry load_master_csv builds. *)
(***************************************************************************)
InitResolve ==
    /\ fn = "resolve_code"
    /\ input \in [name : QueryNames, rows : SeqsUpTo(RegistryRows, MaxRows)]
    /\ output = None /\ called = FALSE /\ DriverIdle

Registry(rows) ==
    load_master_csv([exists |-> TRUE, fieldnames |-> <<"code", "name">>, rows |-> rows])

ApplyResolve ==
    /\ fn = "resolve_code" /\ ~called
    /\ LET reg == Registry(input.rows)
       IN  output' = resolve_code(input.name, reg.exact, reg.partial)
    /\ called' = TRUE
    /\ UNCHANGED <<fn, input>> /\ UNCHANGED driverVars

SpecResolve == InitResolve /\ [][ApplyResolve]_vars

\* C5: normalize_name is idempotent: normalizing a normalized name changes nothing.
C5_Idempotent == (fn = "normalize_name" /\ Len(output) = 2) => output[2] = output[1]

(***************************************************************************)
(* find_pdf_sbi applied to an index page.                                  *)
(***************************************************************************)
MaxLinks == 3

PassingHrefs == {<<MonthlyPath, "a", ".pdf">>, <<MonthlyPath, "b", ".PDF">>}

FailingHrefs == {<<"/data/other/", "c", ".pdf">>, <<MonthlyPath, "d", ".html">>}

Jan31 == <<"2", "0", "2", "4", "NEN", "1", "GATSU", "3", "1", "NICHI">>
Feb29 == <<"2", "0", "2", "4", "NEN", "2", "GATSU", "2", "9", "NICHI">>
Feb30 == <<"2", "0", "2", "4", "NEN", "2", "GATSU", "3", "0", "NICHI">>
FebEnd == <<"FW_2", "0", "2", "4", "NEN", " ", "0", "2", "GATSU", "MATSU">>
Dec23End == <<"x", "2", "0", "2", "3", "NEN", "1", "2", "GATSU", "MATSU", " ">>
Undated == <<"x", "1", "GATSU">>

LinkTexts == {Jan31, Feb29, Feb30, FebEnd, Dec23End, Undated}

Links == [href : PassingHrefs, text : LinkTexts] \cup [href : FailingHrefs, text : {Feb29}]

InitSbi ==
    /\ fn = "find_pdf_sbi"
    /\ input \in [ok : BOOLEAN, links : SeqsUpTo(Links, MaxLinks)]
    /\ output = None /\ called = FALSE /\ DriverIdle

ApplySbi ==
    /\ fn = "find_pdf_sbi" /\ ~called
    /\ output' = find_pdf_sbi(input)
    /\ called' = TRUE
    /\ UNCHANGED <<fn, input>> /\ UNCHANGED driverVars

SpecSbi == InitSbi /\ [][ApplySbi]_vars

(***************************************************************************)
(* find_pdf_sparx_backtrack applied on a day, with the answers of the      *)
(* existence checks.                                                       *)
(***************************************************************************)
ProbeYears == 2

Days ==
    {<<y, m, d>> \in (2023..(2023 + ProbeYears - 1)) \X (1..12) \X (1..31) :
        ValidDate(y, m, d)}

InitProbe ==
    /\ fn = "find_pdf_sparx_backtrack"
    /\ input \in [today : Days, head : [1..3 -> BOOLEAN]]
    /\ output = None /\ called = FALSE /\ DriverIdle

ApplyProbe ==
    /\ fn = "find_pdf_sparx_backtrack" /\ ~called
    /\ output' = find_pdf_sparx_backtrack(input.today, input.head)
    /\ called' = TRUE
    /\ UNCHANGED <<fn, input>> /\ UNCHANGED driverVars

SpecProbe == InitProbe /\ [][ApplyProbe]_vars

(***************************************************************************)
(* extract_top10_holdings, the loop of lines 175-204 one line at a time.   *)
(* output is [lines, i, st, ret, pc]: the cleaned lines, the index of the  *)
(* next line, the loop's state, the value returned, and "loop" or "done".  *)
(***************************************************************************)
Trigger == <<"KUMI", "IRE", "JOU", "KURAI", "1", "0", "MEI", "GARA">>

SkipKeywords == {<<"TOU", "REPOTO", "HA">>, <<"(", "1", "/", "8", ")">>,
                 <<"GO", "CHUUI">>, <<"KOME">>}

MaxLines == 4

LineTrigger == <<"x">> \o Trigger
LineTwo == <<"1", " ", "S", " ", "9", ".", "5", "%", " ", "2", " ", "A", " ", "4", "%">>
LineTwoLastOut ==
    <<"1", " ", "A", " ", "9", "%", " ", "1", "1", " ", "B", " ", "4", "%">>
LineOne == <<"3", " ", "B", " ", "1", "%">>
LineDup == <<" ", "FW_4", "IDSP", "A", " ", "2", "%", " ">>
LineSkip == <<"5", " ", "C", " ", "1", "%", "KOME">>
LinePlain == <<"x", " ", "5", " ", "D", " ", "4", ".", "2">>

DocLines == {LineTrigger, LineTwo, LineTwoLastOut, LineOne, LineDup, LineSkip,
             LinePlain, <<" ">>}

InitLine ==
    /\ fn = "extract_top10_holdings"
    /\ input \in SeqsUpTo(DocLines, MaxLines)
    /\ output = [lines |-> CleanLines(input), i |-> 1, st |-> ScanStart, ret |-> <<>>, pc |-> "loop"]
    /\ called = FALSE /\ DriverIdle

ScanLine ==
    /\ fn = "extract_top10_holdings" /\ output.pc = "loop"
    /\ output.i <= Len(output.lines) /\ ~output.st.stop
    /\ output' = [output EXCEPT
                     !.st = LineStep(output.st, output.lines[output.i], Trigger,
                                     SkipKeywords),
                     !.i = output.i + 1]
    /\ called' = TRUE
    /\ UNCHANGED <<fn, input>> /\ UNCHANGED driverVars

ScanReturn ==
    /\ fn = "extract_top10_holdings" /\ output.pc = "loop"
    /\ (output.i > Len(output.lines) \/ output.st.stop)
    /\ output' = [output EXCEPT !.ret = First10(output.st.holdings), !.pc = "done"]
    /\ called' = TRUE
    /\ UNCHANGED <<fn, input>> /\ UNCHANGED driverVars

SpecLine == InitLine /\ [][ScanLine \/ ScanReturn]_vars

(***************************************************************************)
(* extract_top10_holdings_sparx_table, the loop of lines 231-274 one page  *)
(* at a time.  output is [i, st, ret, pc].                                 *)
(***************************************************************************)
MaxTables == 2
MaxPages == 1

TblRanks ==
    << <<<<"1">>, <<"A">>>>, <<<<"FW_2">>, <<"B">>>>, <<<<" ", "3">>, <<"C">>>> >>

TblWide ==
    << <<<<"N", "o">>, <<"x">>, <<"y">>>>,
       <<<<"1">>, <<"D">>, <<"z">>>>,
       <<<<"1", "1">>, <<"E">>, None>>,
       <<<<"0">>, <<"F">>, <<>>>> >>

TblTen == << <<<<"1">>, <<"A">>>>, <<<<"1", "0">>, <<"G">>>> >>

TblOdd ==
    << <<None, <<"H">>>>, <<<<"9">>>>, <<<<"FW_1">>, <<>>>>,
       <<<<"2">>, <<" ", "B", " ">>>> >>

Tables == {TblRanks, TblWide, TblTen, TblOdd}

Pages == [tables : SeqsUpTo(Tables, MaxTables), fail : {"none", "extract_table", "both"}]

InitTable ==
    /\ fn = "extract_top10_holdings_sparx_table"
    /\ input \in SeqsUpTo(Pages, MaxPages)
    /\ output = [i |-> 1, st |-> PagesStart, ret |-> <<>>, pc |-> "loop"]
    /\ called = FALSE /\ DriverIdle

ScanPage ==
    /\ fn = "extract_top10_holdings_sparx_table" /\ output.pc = "loop"
    /\ output.i <= Len(input) /\ ~output.st.stop
    /\ output' = [output EXCEPT !.st = PageStep(output.st, input[output.i]),
                                !.i = output.i + 1]
    /\ called' = TRUE
    /\ UNCHANGED <<fn, input>> /\ UNCHANGED driverVars

PagesReturn ==
    /\ fn = "extract_top10_holdings_sparx_table" /\ output.pc = "loop"
    /\ (output.i > Len(input) \/ output.st.stop)
    /\ output' = [output EXCEPT !.ret = First10(output.st.holdings), !.pc = "done"]
    /\ called' = TRUE
    /\ UNCHANGED <<fn, input>> /\ UNCHANGED driverVars

SpecTable == InitTable /\ [][ScanPage \/ PagesReturn]_vars

(***************************************************************************)
(* The resolver's claims, stated over the registry entries themselves.     *)
(***************************************************************************)
ResolveDone == fn = "resolve_code" /\ called

QueryKey == normalize_name(input.name)

Entries == Registry(input.rows).partial

\* the entries whose normalized name is the key
EqualEntries == {i \in 1..Len(Entries) : Entries[i][3] = QueryKey}

\* the entries in substring containment with the key, either way round
ContainEntries ==
    {i \in 1..Len(Entries) :
        Contains(Entries[i][3], QueryKey) \/ Contains(QueryKey, Entries[i][3])}

\* C3: a key of length <= 2 resolves to (code, EXACT) when it equals an entry's
\* normalized name and to (none, TOO_SHORT) otherwise, whatever the substring hits.
C3_ShortKey ==
    (ResolveDone /\ Len(QueryKey) <= 2) =>
        IF EqualEntries # {}
        THEN output[2] = "EXACT" /\ \E i \in EqualEntries : output[1] = Entries[i][1]
        ELSE output = <<None, "TOO_SHORT">>

\* a short key that is no entry's name while entries contain it
C3_Witness ==
    /\ ResolveDone /\ Len(QueryKey) \in 1..2 /\ EqualEntries = {}
    /\ ContainEntries # {} /\ output = <<None, "TOO_SHORT">>

\* C4: a key longer than 2 that equals no entry's name is classified by the number
\* of distinct codes among the entries in containment: none NOT_FOUND, one PARTIAL
\* with that code, two or more AMBIGUOUS.
C4_DistinctCodes ==
    (ResolveDone /\ Len(QueryKey) > 2 /\ EqualEntries = {}) =>
        LET codes == {Entries[i][1] : i \in ContainEntries}
        IN  IF codes = {} THEN output = <<None, "NOT_FOUND">>
            ELSE IF Cardinality(codes) = 1
                 THEN output[2] = "PARTIAL" /\ output[1] \in codes
            ELSE output = <<None, "AMBIGUOUS">>

(***************************************************************************)
(* The locators' claims.                                                   *)
(***************************************************************************)
SbiDone == fn = "find_pdf_sbi" /\ called

\* the calendar date a link text names, None when it names none: the text holds
\* no date pattern, or the pattern's numbers are no day of the calendar
TextDate(text) ==
    LET p == parse_jp_date(text) IN IF p.raises THEN None ELSE p.value

Survivors == SelectSeq(input.links, LAMBDA a : SurvivesFilter(a.href))

\* link i is at least as late as link j; an undated link is older than a dated one
NotOlder(i, j) ==
    LET di == TextDate(Survivors[i].text)
        dj == TextDate(Survivors[j].text)
    IN  \/ dj = None
        \/ di # None /\ ~DateLess(di, dj)

\* C7: with a page fetched and a link surviving the filter, find_pdf_sbi returns the
\* first link among those of the latest date; a link whose text gives no date
\* (none written, or an impossible calendar date) is older than every dated link
\* and does not fail the scan.
C7_LatestLink ==
    (SbiDone /\ input.ok /\ Survivors # <<>>) =>
        /\ output.kind = "ok"
        /\ \E i \in 1..Len(Survivors) :
              /\ \A j \in 1..Len(Survivors) : NotOlder(i, j)
              /\ \A j \in 1..(i - 1) : ~NotOlder(j, i)
              /\ output.url = Survivors[i].href
              /\ output.date = TextDate(Survivors[i].text)

ProbeDone == fn = "find_pdf_sparx_backtrack" /\ called

\* the k-th calendar month before the month of today, as <<year, month>>
MonthBefore(k) ==
    LET idx == input.today[1] * 12 + (input.today[2] - 1) - k
    IN  <<idx \div 12, (idx % 12) + 1>>

\* the number of checks the answers allow: up to the first success, three at most
ChecksWanted ==
    IF \E k \in 1..3 : input.head[k]
    THEN CHOOSE k \in 1..3 : input.head[k] /\ \A j \in 1..(k - 1) : ~input.head[j]
    ELSE 3

\* C8: the checks go to the three months before the current one, most recent first,
\* and stop at the first success, which is returned with the last day of its month
\* as report date; three failures raise and return no URL.
C8_Probe ==
    ProbeDone =>
        /\ Len(output.checks) = ChecksWanted
        /\ \A k \in 1..ChecksWanted :
              output.checks[k] = MonthBefore(k)[1] * 100 + MonthBefore(k)[2]
        /\ IF \E k \in 1..3 : input.head[k]
           THEN LET ym == MonthBefore(ChecksWanted)
                IN  /\ output.kind = "ok"
                    /\ output.url = ym[1] * 100 + ym[2]
                    /\ output.date[1] = ym[1] /\ output.date[2] = ym[2]
                    /\ ValidDate(ym[1], ym[2], output.date[3])
                    /\ ~ValidDate(ym[1], ym[2], output.date[3] + 1)
           ELSE output.kind = "raise" /\ output.url = None

\* the second check succeeds on a 31st of March: February is probed first, then
\* January, whose last day is returned
C8_Witness ==
    /\ ProbeDone /\ input.today = <<2024, 3, 31>>
    /\ ~input.head[1] /\ input.head[2]
    /\ output.checks = <<202402, 202401>> /\ output.date = <<2024, 1, 31>>

(***************************************************************************)
(* The line-pattern extractor's claim.                                     *)
(***************************************************************************)
\* the line the step taken has scanned
ScannedLine == output.lines[output.i]

\* the first line that holds the trigger, 0 when none does
FirstTriggerLine ==
    LET T == {k \in 1..Len(output.lines) : Contains(output.lines[k], Trigger)}
    IN  IF T = {} THEN 0 ELSE CHOOSE k \in T : \A j \in T : k <= j

\* C10: a scanned line adds at most one name: the name of its last match, when the
\* line lies after the first trigger line, holds neither the trigger nor a skip
\* keyword, that match's rank is in 1..10 and the name is not yet collected;
\* earlier matches of the line add nothing.
C10_LastMatchOnly ==
    [][(fn = "extract_top10_holdings" /\ output.pc = "loop" /\ output'.pc = "loop") =>
        LET ms == FindIter(ScannedLine, 1)
            last == ms[Len(ms)]
            before == output.st.holdings
            after == output'.st.holdings
            counts == /\ FirstTriggerLine # 0 /\ output.i > FirstTriggerLine
                      /\ ~Contains(ScannedLine, Trigger)
                      /\ \A sk \in SkipKeywords : ~Contains(ScannedLine, sk)
                      /\ ms # <<>>
                      /\ last.rank \in 1..10
                      /\ ~InSeq(last.name, before)
        IN  after = IF counts THEN Append(before, last.name) ELSE before]_vars

\* a line of two matches inside the block has given its last name and not its first
C10_Witness ==
    /\ fn = "extract_top10_holdings" /\ output.i > 1
    /\ output.lines[output.i - 1] = LineTwo
    /\ output.st.holdings = <<<<"A">>>>

(***************************************************************************)
(* The ruled-table extractor's claim.                                      *)
(***************************************************************************)
PageScanned == fn = "extract_top10_holdings_sparx_table" /\ output.pc = "loop"
                 /\ output'.pc = "loop"

ScannedPage == input[output.i]

\* the rank score of a table: its first-column cells that are a rank in 1..10
Score(t) ==
    Cardinality({r \in 1..Len(t) :
        /\ t[r] # <<>>
        /\ RankOf(Strip(CellText(t[r][1]))) \in 1..10})

\* the first table of the highest score
BestScored(tables) ==
    tables[CHOOSE i \in 1..Len(tables) :
             /\ \A j \in 1..Len(tables) : Score(tables[i]) >= Score(tables[j])
             /\ \A j \in 1..(i - 1) : Score(tables[j]) < Score(tables[i])]

\* the first table of the most cells
Largest(tables) ==
    tables[CHOOSE i \in 1..Len(tables) :
             /\ \A j \in 1..Len(tables) :
                   CellCount(tables[i], 1) >= CellCount(tables[j], 1)
             /\ \A j \in 1..(i - 1) :
                   CellCount(tables[j], 1) < CellCount(tables[i], 1)]

\* C9 as claimed: the holdings of a page are taken from its table of the highest
\* rank score, the first of them, whatever the tables' sizes and order.
C9_HighestScore ==
    [][(PageScanned /\ ScannedPage.fail = "none" /\ ScannedPage.tables # <<>>) =>
        output'.st.holdings =
            RowsHoldings(output.st.holdings, BestScored(ScannedPage.tables), 1)]_vars

\* C9 amended: the holdings of a page are taken from the table extract_table
\* returns, the table of the most cells (the first of them), whatever its rank
\* score; when that call raises, from the first table whose text holds a
\* standalone 1 and a standalone 10, if extract_tables returns; else from none.
C9_LargestTable ==
    [][PageScanned =>
        LET page == ScannedPage
            ranked == {i \in 1..Len(page.tables) : LooksRanked(page.tables[i])}
            before == output.st.holdings
            after == output'.st.holdings
        IN  IF page.fail = "none" /\ page.tables # <<>>
            THEN after = RowsHoldings(before, Largest(page.tables), 1)
            ELSE IF page.fail = "extract_table" /\ ranked # {}
            THEN after = RowsHoldings(before,
                            page.tables[CHOOSE i \in ranked : \A j \in ranked : i <= j], 1)
            ELSE after = before]_vars

\* a page whose larger table scores less has given that table's holdings
C9_Witness ==
    /\ fn = "extract_top10_holdings_sparx_table" /\ output.i = 2
    /\ input[1] = [tables |-> <<TblRanks, TblWide>>, fail |-> "none"]
    /\ Score(TblRanks) > Score(TblWide)
    /\ output.st.holdings = <<<<"D">>>>

(***************************************************************************)
(* main, lines 545-637.  pc is the place of the run: "start" before the    *)
(* registry is loaded, "loop" at the head of the for of line 554, "find",  *)
(* "download", "extract", "resolve", "hifumi_get", "hifumi_extract" inside *)
(* the try of one fund, "except" in the handler of line 632, "done" after  *)
(* line 637, "exit" after sys.exit, "crash" after an exception that        *)
(* nothing catches.  attempts is the list of the funds announced by line   *)
(* 556 and errors the list of those reported by line 633; stages records   *)
(* each locator, fetch and extractor call with what it returned, and       *)
(* resolverCalls each call of resolve_code.                                *)
(***************************************************************************)
SBI_SmallMonsters ==
    [id |-> "SBI_SmallMonsters", finder_type |-> "sbi_scrape", extractor_type |-> "text_regex"]

Sparx_Gensen ==
    [id |-> "Sparx_Gensen", finder_type |-> "sparx_backtrack", extractor_type |-> "sparx_table"]

Hifumi_MicroscopePro ==
    [id |-> "Hifumi_MicroscopePro", finder_type |-> "hifumi_html",
     extractor_type |-> "hifumi_html"]

TARGET_FUNDS == <<SBI_SmallMonsters, Sparx_Gensen, Hifumi_MicroscopePro>>

\* the lists that hold funds of TARGET_FUNDS, each at most once, in any order
FundLists ==
    {[k \in 1..Len(p) |-> TARGET_FUNDS[p[k]]] :
       p \in {q \in SeqsUpTo(1..Len(TARGET_FUNDS), Len(TARGET_FUNDS)) :
                \A i, j \in 1..Len(q) : i # j => q[i] # q[j]}}

\* the local variables of one turn of the loop before anything is assigned
NoCur == [fid |-> "", pdf_url |-> None, report_date |-> None, body |-> None,
          raw_names |-> <<>>, k |-> 0]

\* str(int) padded with zeros to w digits
RECURSIVE ZeroPad(_, _)
ZeroPad(n, w) ==
    IF w = 0 THEN <<>>
    ELSE Append(ZeroPad(n \div 10, w - 1), CHOOSE c \in HalfDigits : DigitVal(c) = n % 10)

\* str(report_date), lines 580 and 626
StrDate(d) ==
    IF d = None THEN <<"N", "o", "n", "e">>
    ELSE ZeroPad(d[1], 4) \o <<"-">> \o ZeroPad(d[2], 2) \o <<"-">> \o ZeroPad(d[3], 2)

\* the holding handed to resolve_code like a name read from a PDF
HifumiRecord_Resolved(fid, report_date, it) ==
    [fund_id |-> fid, report_date |-> StrDate(report_date), rank_name |-> it.name,
     code |-> resolve_code(it.name, master.exact, master.partial)[1],
     status |-> resolve_code(it.name, master.exact, master.partial)[2]]

\* the record of lines 578-584
HifumiRecord(fid, report_date, it) ==
    [fund_id |-> fid, report_date |-> StrDate(report_date), rank_name |-> it.name,
     code |-> it.code, status |-> "FROM_HTML"]

\* the record of lines 621-630
ResolvedRecord(fid, report_date, name, exact, partial) ==
    LET r == resolve_code(name, exact, partial)
    IN  [fund_id |-> fid, report_date |-> StrDate(report_date), rank_name |-> name,
         code |-> r[1], status |-> r[2]]

\* lines 549-552
LoadMaster ==
    /\ pc = "start"
    /\ LET r == load_master_csv(master.file)
       IN  /\ master' = [master EXCEPT !.kind = r.kind, !.exact = r.exact,
                                       !.partial = r.partial]
           /\ pc' = IF r.kind = "exit" THEN "exit"
                    ELSE IF r.kind = "raise" THEN "crash" ELSE "loop"
           /\ fundIdx' = IF r.kind \in {"exit", "raise"} THEN 0 ELSE 1
    /\ UNCHANGED <<funds, cur, results, attempts, errors, resolverCalls, stages>>
    /\ UNCHANGED pureVars

\* lines 554-560 and 587-591: the next fund announced, its branch chosen
NextFund ==
    /\ pc = "loop" /\ fundIdx <= Len(funds)
    /\ attempts' = Append(attempts, funds[fundIdx].id)
    /\ cur' = [NoCur EXCEPT !.fid = funds[fundIdx].id]
    /\ pc' = IF funds[fundIdx].finder_type = "hifumi_html" THEN "hifumi_get" ELSE "find"
    /\ UNCHANGED <<funds, master, fundIdx, results, errors, resolverCalls, stages>>
    /\ UNCHANGED pureVars

\* line 637
Finish ==
    /\ pc = "loop" /\ fundIdx > Len(funds)
    /\ pc' = "done"
    /\ UNCHANGED <<funds, master, fundIdx, cur, results, attempts, errors,
                   resolverCalls, stages>>
    /\ UNCHANGED pureVars

\* what the locators are given in this specification
IndexPages ==
    {[ok |-> FALSE, links |-> <<>>],
     [ok |-> TRUE, links |-> <<[href |-> <<"/data/other/", "c", ".pdf">>, text |-> Feb29]>>],
     [ok |-> TRUE, links |-> <<[href |-> <<MonthlyPath, "a", ".pdf">>, text |-> Jan31],
                               [href |-> <<MonthlyPath, "b", ".PDF">>, text |-> Feb29]>>],
     [ok |-> TRUE, links |-> <<[href |-> <<MonthlyPath, "a", ".pdf">>, text |-> Feb30]>>]}

ProbeDay == <<2024, 3, 31>>

HeadAnswers == {[k \in 1..3 |-> FALSE], [k \in 1..3 |-> k >= 2]}

\* lines 591-594: [kind, url, date]
Located(fund) ==
    IF fund.finder_type = "sbi_scrape"
    THEN {find_pdf_sbi(p) : p \in IndexPages}
    ELSE {[kind |-> r.kind, url |-> r.url, date |-> r.date] :
            r \in {find_pdf_sparx_backtrack(ProbeDay, h) : h \in HeadAnswers}}

\* lines 587-597
Find ==
    /\ pc = "find"
    /\ \E r \in Located(funds[fundIdx]) :
          /\ stages' = Append(stages, [fund |-> cur.fid, stage |-> "locate",
                                       ok |-> r.kind = "ok", items |-> <<>>])
          /\ pc' = IF r.kind = "ok" THEN "download" ELSE "except"
          /\ cur' = IF r.kind = "ok"
                    THEN [cur EXCEPT !.pdf_url = r.url, !.report_date = r.date]
                    ELSE cur
    /\ UNCHANGED <<funds, master, fundIdx, results, attempts, errors, resolverCalls>>
    /\ UNCHANGED pureVars

\* the documents http_get returns in this specification: [ok, opens, raw, pages],
\* ok FALSE when http_get raises, opens FALSE when pdfplumber.open raises
PdfLine1 == <<"1", " ", "A", "B", "C", " ", "9", ".", "5", "%">>
PdfLine2 == <<"2", " ", "X", "Y", " ", "4", "%">>
PdfLine3 == <<"3", " ", "(", "KABU", ")", "A", "B", "C", "D", " ", "1", "%">>

PdfTable ==
    << <<<<"1">>, <<"A", "B", "C", "D">>>>, <<<<"2">>, <<"Q", "R", "S">>>> >>

PdfBodies ==
    {[ok |-> FALSE, opens |-> FALSE, raw |-> <<>>, pages |-> <<>>],
     [ok |-> TRUE, opens |-> FALSE, raw |-> <<>>, pages |-> <<>>],
     [ok |-> TRUE, opens |-> TRUE, raw |-> <<PdfLine1>>, pages |-> <<>>],
     [ok |-> TRUE, opens |-> TRUE, raw |-> <<LineTrigger, PdfLine1, PdfLine2, PdfLine3>>,
      pages |-> <<[tables |-> <<PdfTable>>, fail |-> "none"]>>]}

\* lines 600-601
Download ==
    /\ pc = "download"
    /\ \E b \in PdfBodies :
          /\ stages' = Append(stages, [fund |-> cur.fid, stage |-> "fetch",
                                       ok |-> b.ok, items |-> <<>>])
          /\ pc' = IF b.ok THEN "extract" ELSE "except"
          /\ cur' = IF b.ok THEN [cur EXCEPT !.body = b] ELSE cur
    /\ UNCHANGED <<funds, master, fundIdx, results, attempts, errors, resolverCalls>>
    /\ UNCHANGED pureVars

\* lines 604-612
RawNames(fund, body) ==
    IF fund.extractor_type = "sparx_table"
    THEN extract_top10_holdings_sparx_table(body.pages)
    ELSE extract_top10_holdings(body.raw, Trigger, SkipKeywords)

\* lines 603-616
Extract ==
    /\ pc = "extract"
    /\ LET names == IF cur.body.opens THEN RawNames(funds[fundIdx], cur.body) ELSE <<>>
       IN  /\ stages' = Append(stages, [fund |-> cur.fid, stage |-> "extract",
                                        ok |-> cur.body.opens, items |-> names])
           /\ pc' = IF ~cur.body.opens THEN "except"
                    ELSE IF names = <<>> THEN "loop" ELSE "resolve"
           /\ fundIdx' = IF cur.body.opens /\ names = <<>> THEN fundIdx + 1 ELSE fundIdx
           /\ cur' = IF cur.body.opens /\ names # <<>>
                     THEN [cur EXCEPT !.raw_names = names, !.k = 1] ELSE cur
    /\ UNCHANGED <<funds, master, results, attempts, errors, resolverCalls>>
    /\ UNCHANGED pureVars

\* one turn of the loop of lines 620-630
Resolve ==
    /\ pc = "resolve"
    /\ LET name == cur.raw_names[cur.k]
       IN  /\ resolverCalls' = Append(resolverCalls, <<cur.fid, name>>)
           /\ results' = Append(results, ResolvedRecord(cur.fid, cur.report_date, name,
                                                        master.exact, master.partial))
    /\ pc' = IF cur.k < Len(cur.raw_names) THEN "resolve" ELSE "loop"
    /\ cur' = IF cur.k < Len(cur.raw_names) THEN [cur EXCEPT !.k = cur.k + 1] ELSE cur
    /\ fundIdx' = IF cur.k < Len(cur.raw_names) THEN fundIdx ELSE fundIdx + 1
    /\ UNCHANGED <<funds, master, attempts, errors, stages>>
    /\ UNCHANGED pureVars

\* the pages http_get returns for the hifumi fund: [ok, parses, text, tables, dls,
\* scripts], parses FALSE when BeautifulSoup raises
HifumiDate == <<"x">> \o Jan31 \o <<" ">> \o Dec23End

HifumiTable ==
    << <<[th |-> TRUE, text |-> JUNI], [th |-> TRUE, text |-> MEIGARAMEI],
         [th |-> TRUE, text |-> MEIGARA \o KOODO]>>,
       <<[th |-> FALSE, text |-> <<"2">>], [th |-> FALSE, text |-> <<"A", "B", "C">>],
         [th |-> FALSE, text |-> <<"1", "1", "1", "1">>]>>,
       <<[th |-> FALSE, text |-> <<"1">>], [th |-> FALSE, text |-> <<"Z">>],
         [th |-> FALSE, text |-> <<"FW_7", "7", "7", "7", "x">>]>> >>

HifumiDl ==
    [dts |-> <<MEIGARAMEI, KOODO>>, dds |-> <<<<"Q", "R", "S">>, <<"8", "8", "8", "8">>>>,
     parent |-> <<<<"3">>>>]

NoScripts == [pat1 |-> <<>>, pat2 |-> <<>>]

HifumiPages ==
    {[ok |-> FALSE, parses |-> FALSE, text |-> <<>>, tables |-> <<>>, dls |-> <<>>,
      scripts |-> NoScripts],
     [ok |-> TRUE, parses |-> FALSE, text |-> <<>>, tables |-> <<>>, dls |-> <<>>,
      scripts |-> NoScripts],
     [ok |-> TRUE, parses |-> TRUE, text |-> Undated, tables |-> <<>>, dls |-> <<>>,
      scripts |-> NoScripts],
     [ok |-> TRUE, parses |-> TRUE, text |-> HifumiDate, tables |-> <<HifumiTable>>,
      dls |-> <<HifumiDl>>, scripts |-> NoScripts],
     [ok |-> TRUE, parses |-> TRUE, text |-> <<>>, tables |-> <<>>, dls |-> <<>>,
      scripts |-> [pat1 |-> <<[name |-> <<"A", "B", "C">>, code |-> <<"1", "1", "1", "1">>]>>,
                   pat2 |-> <<>>]]}

\* line 561
HifumiGet ==
    /\ pc = "hifumi_get"
    /\ \E page \in HifumiPages :
          /\ stages' = Append(stages, [fund |-> cur.fid, stage |-> "fetch",
                                       ok |-> page.ok, items |-> <<>>])
          /\ pc' = IF page.ok THEN "hifumi_extract" ELSE "except"
          /\ cur' = IF page.ok THEN [cur EXCEPT !.body = page] ELSE cur
    /\ UNCHANGED <<funds, master, fundIdx, results, attempts, errors, resolverCalls>>
    /\ UNCHANGED pureVars

RECURSIVE HifumiRecords(_, _, _, _)
\* the loop of lines 572-584 from item k on
HifumiRecords(fid, report_date, holdings, k) ==
    IF k > Len(holdings) THEN <<>>
    ELSE <<HifumiRecord(fid, report_date, holdings[k])>>
           \o HifumiRecords(fid, report_date, holdings, k + 1)

\* lines 562-585
HifumiExtract ==
    /\ pc = "hifumi_extract"
    /\ LET report_date == _find_latest_jp_date_in_text(cur.body.text)
           holdings == IF cur.body.parses
                       THEN extract_top10_holdings_hifumi_html(cur.body) ELSE <<>>
       IN  /\ stages' = Append(stages, [fund |-> cur.fid, stage |-> "extract",
                                        ok |-> cur.body.parses, items |-> holdings])
           /\ pc' = IF cur.body.parses THEN "loop" ELSE "except"
           /\ fundIdx' = IF cur.body.parses THEN fundIdx + 1 ELSE fundIdx
           /\ cur' = IF cur.body.parses THEN [cur EXCEPT !.report_date = report_date]
                     ELSE cur
           /\ results' = results \o HifumiRecords(cur.fid, report_date, holdings, 1)
    /\ UNCHANGED <<funds, master, attempts, errors, resolverCalls>>
    /\ UNCHANGED pureVars

\* the loop left at the first failure
Except_Stop ==
    /\ pc = "except"
    /\ errors' = Append(errors, cur.fid)
    /\ pc' = "done"
    /\ UNCHANGED <<funds, master, fundIdx, cur, results, attempts, resolverCalls, stages>>
    /\ UNCHANGED pureVars

\* lines 632-635
Except ==
    /\ pc = "except"
    /\ errors' = Append(errors, cur.fid)
    /\ pc' = "loop" /\ fundIdx' = fundIdx + 1
    /\ UNCHANGED <<funds, master, cur, results, attempts, resolverCalls, stages>>
    /\ UNCHANGED pureVars

\* the registry files of this specification
MasterRows ==
    <<[code |-> <<"1", "1", "1", "1">>, name |-> <<"A", "B", "C">>],
      [code |-> <<"2", "2", "2", "2">>, name |-> <<"X", "A", "B", "C", "D", "E">>]>>

MasterFiles ==
    {[exists |-> FALSE, fieldnames |-> None, rows |-> <<>>],
     [exists |-> TRUE, fieldnames |-> None, rows |-> <<>>],
     [exists |-> TRUE, fieldnames |-> <<"name", "sector">>, rows |-> MasterRows],
     [exists |-> TRUE, fieldnames |-> <<"code", "sector">>, rows |-> MasterRows],
     [exists |-> TRUE, fieldnames |-> <<"code", "name", "sector">>, rows |-> MasterRows]}

Init ==
    /\ fn = "main" /\ input = <<>> /\ output = <<>> /\ called = FALSE
    /\ pc = "start"
    /\ funds \in FundLists
    /\ master \in [file : MasterFiles, kind : {"unread"}, exact : {EmptyDict},
                   partial : {<<>>}]
    /\ fundIdx = 0 /\ cur = NoCur
    /\ results = <<>> /\ attempts = <<>> /\ errors = <<>>
    /\ resolverCalls = <<>> /\ stages = <<>>

Next ==
    \/ LoadMaster
    \/ NextFund
    \/ Find
    \/ Download
    \/ Extract
    \/ Resolve
    \/ HifumiGet
    \/ HifumiExtract
    \/ Except
    \/ Finish

Spec == Init /\ [][Next]_vars

(***************************************************************************)
(* Properties of main.                                                     *)
(***************************************************************************)
IsPrefix(a, b) == Len(a) <= Len(b) /\ SubSeq(b, 1, Len(a)) = a

\* the records of fund fid, in the order of the output sequence
RecordsOf(fid) == SelectSeq(results, LAMBDA r : r.fund_id = fid)

\* fund fid was reported by the handler of line 632
Failed(fid) == InSeq(fid, errors)

\* what the extractor returned for fund fid, <<>> when it was not reached or raised
Extracted(fid) ==
    LET done == SelectSeq(stages, LAMBDA e : e.fund = fid /\ e.stage = "extract" /\ e.ok)
    IN  IF Len(done) = 0 THEN <<>> ELSE done[1].items

\* the names among what the extractor of fund f returned
ExtractedNames(f) ==
    IF f.extractor_type = "hifumi_html"
    THEN [i \in 1..Len(Extracted(f.id)) |-> Extracted(f.id)[i].name]
    ELSE Extracted(f.id)

\* the place of fund fid in the configuration
FundPlace(fid) == CHOOSE k \in 1..Len(funds) : funds[k].id = fid

PartialCompletion ==
    /\ Len(attempts) <= Len(funds)
    /\ \A k \in 1..Len(attempts) : attempts[k] = funds[k].id
    /\ pc = "done" => Len(attempts) = Len(funds)
    /\ \A k \in 1..Len(funds) :
          (k < fundIdx /\ ~Failed(funds[k].id))
            => [i \in 1..Len(RecordsOf(funds[k].id)) |-> RecordsOf(funds[k].id)[i].rank_name]
                 = ExtractedNames(funds[k])
    /\ \A i, j \in 1..Len(results) :
          i < j => FundPlace(results[i].fund_id) <= FundPlace(results[j].fund_id)

\* C1: main announces every fund once, in configuration order, whichever funds fail;
\* no step removes or changes a record already in the output sequence, and every
\* fund whose pipeline did not raise has the names its extractor returned in the
\* output sequence, in configuration order, once its turn is over.
C1_PartialCompletion == [][IsPrefix(results, results') /\ PartialCompletion']_vars

\* three funds, the second failed, the first and the third with records
C1_Witness ==
    /\ pc = "done" /\ Len(funds) = 3
    /\ errors = <<funds[2].id>>
    /\ Len(RecordsOf(funds[1].id)) > 0 /\ Len(RecordsOf(funds[3].id)) > 0

\* the registry file has no header line at all
NoHeader(file) == file.exists /\ file.fieldnames = None

\* the header of the registry file lacks the code field or the name field
HeaderLacks(file) ==
    file.exists /\ (~InSeq("code", file.fieldnames) \/ ~InSeq("name", file.fieldnames))

NothingProcessed == attempts = <<>> /\ stages = <<>> /\ results = <<>>

\* C2 as stated: when the header of the registry lacks the code field or the name
\* field, no fund is processed: no locator, fetch or extractor step is started and
\* no record is emitted.
C2_HeaderFatal == (pc # "idle" /\ HeaderLacks(master.file)) => NothingProcessed

\* C2 amended: when the registry has a header line that lacks the code field or the
\* name field, loading it gives a warning and an empty registry, the run goes on
\* through every fund, and every record the resolver makes has no code and status
\* NOT_FOUND or TOO_SHORT; only a file with no header line at all ends the run
\* before any fund is processed.
C2_HeaderWarning ==
    (pc \notin {"idle", "start"} /\ HeaderLacks(master.file)) =>
        IF NoHeader(master.file)
        THEN pc = "crash" /\ NothingProcessed
        ELSE /\ master.kind = "warning" /\ pc \notin {"exit", "crash"}
             /\ master.exact = EmptyDict /\ master.partial = <<>>
             /\ pc = "done" => Len(attempts) = Len(funds)
             /\ \A i \in 1..Len(results) :
                   \/ results[i].status = "FROM_HTML"
                   \/ /\ results[i].status \in {"NOT_FOUND", "TOO_SHORT"}
                      /\ results[i].code = None

\* a run finished on a registry without the code field, all three funds announced,
\* records made by the resolver among the output
C2_Witness ==
    /\ pc = "done" /\ HeaderLacks(master.file) /\ ~NoHeader(master.file)
    /\ Len(attempts) = 3
    /\ \E i \in 1..Len(results) : results[i].status = "NOT_FOUND"
    /\ \E i \in 1..Len(results) : results[i].status = "TOO_SHORT"

ResolverStatuses == {"EXACT", "PARTIAL", "AMBIGUOUS", "NOT_FOUND", "TOO_SHORT"}

\* the holdings of the structured-markup extractor go round the resolver and are
\* emitted with their code and the status st
Bypass(st) ==
    /\ \A i \in 1..Len(resolverCalls) :
          funds[FundPlace(resolverCalls[i][1])].extractor_type # "hifumi_html"
    /\ \A k \in 1..Len(funds) :
          (funds[k].extractor_type = "hifumi_html" /\ k < fundIdx /\ ~Failed(funds[k].id))
            => [i \in 1..Len(RecordsOf(funds[k].id)) |->
                  <<RecordsOf(funds[k].id)[i].rank_name, RecordsOf(funds[k].id)[i].code,
                    RecordsOf(funds[k].id)[i].status>>]
                 = [i \in 1..Len(Extracted(funds[k].id)) |->
                      <<Extracted(funds[k].id)[i].name, Extracted(funds[k].id)[i].code, st>>]
    /\ \A i \in 1..Len(results) :
          /\ results[i].status \in ResolverStatuses \cup {st}
          /\ results[i].status = st
                <=> funds[FundPlace(results[i].fund_id)].extractor_type = "hifumi_html"

\* C6 as stated: a holding whose code the structured-markup extractor supplied is
\* never passed to the resolver and is emitted with that code and the status
\* FROM_DOCUMENT; every status is EXACT, PARTIAL, AMBIGUOUS, NOT_FOUND, TOO_SHORT or
\* FROM_DOCUMENT.
C6_FromDocument == pc # "idle" => Bypass("FROM_DOCUMENT")

\* C6 amended: a holding whose code the structured-markup extractor supplied is never
\* passed to the resolver and is emitted with that code and the status FROM_HTML;
\* every status is EXACT, PARTIAL, AMBIGUOUS, NOT_FOUND, TOO_SHORT or FROM_HTML.
C6_FromHtml == pc # "idle" => Bypass("FROM_HTML")

\* a finished run in which the hifumi fund gave a holding with its code and another
\* fund went through the resolver
C6_Witness ==
    /\ pc = "done"
    /\ \E i \in 1..Len(results) :
          /\ results[i].fund_id = "Hifumi_MicroscopePro"
          /\ results[i].code = <<"7", "7", "7", "7">>
          /\ results[i].status = "FROM_HTML"
    /\ Len(resolverCalls) > 0

(***************************************************************************)
(* The three extractors on documents long enough to pass ten holdings.     *)
(* extract_top10_holdings_hifumi_html is run one row, one dl and one match *)
(* at a time; output is [pass, t, r, d, k, items, entered, ret, pc]: the   *)
(* pass at work ("table", "dl", "pat1", "pat2", then "final"), the table   *)
(* and row, the dl and the match to look at next, the items so far, the    *)
(* later passes entered so far, each with the number of items held at its  *)
(* entry, the value returned, and "loop" or "done".                        *)
(***************************************************************************)
\* the pass that follows the loop of o.pass: the tests of lines 380, 423 and 446
NextPass(o) ==
    IF o.pass = "table" /\ Len(o.items) < 10 THEN "dl"
    ELSE IF o.pass \in {"table", "dl"} /\ Len(o.items) < 10 THEN "pat1"
    ELSE IF o.pass = "pat1" /\ Len(o.items) < 10 THEN "pat2"
    ELSE "final"

\* the loop of a pass begun: its counters reset, its entry recorded
EnterPass(o, pass) ==
    [o EXCEPT !.pass = pass, !.t = 1, !.r = 1, !.d = 1, !.k = 1,
              !.entered = IF pass = "final" THEN @
                          ELSE Append(@, [pass |-> pass, n |-> Len(o.items)])]

\* after an _add, lines 373-377, 419-420, 443-444 and 451-452: the loop left at
\* ten items, the next row, dl or match otherwise
AfterAdd(o, items) ==
    IF Len(items) >= 10
    THEN EnterPass([o EXCEPT !.items = items], NextPass([o EXCEPT !.items = items]))
    ELSE [o EXCEPT !.items = items,
                   !.r = IF o.pass = "table" THEN @ + 1 ELSE @,
                   !.d = IF o.pass = "dl" THEN @ + 1 ELSE @,
                   !.k = IF o.pass \in {"pat1", "pat2"} THEN @ + 1 ELSE @]

\* lines 340-377 on table o.t, whose headers passed lines 316-323
TableRowStep(o, table, headers) ==
    IF o.r > Len(table)
    THEN IF Len(o.items) >= 10 THEN EnterPass(o, NextPass(o))
         ELSE [o EXCEPT !.t = o.t + 1, !.r = 1]
    ELSE AfterAdd(o, TableRow(o.items, headers, table[o.r]))

\* one step of the loop of lines 306-377
TableStepOf(o, tables) ==
    IF o.t > Len(tables) THEN EnterPass(o, NextPass(o))
    ELSE IF \/ Headers(tables[o.t]) = <<>>
            \/ NameIdx(Headers(tables[o.t])) = 0
            \/ CodeIdx(Headers(tables[o.t])) = 0
         THEN [o EXCEPT !.t = o.t + 1, !.r = 1]
         ELSE TableRowStep(o, tables[o.t], Headers(tables[o.t]))

\* one step of the loop of lines 381-420
DlStepOf(o, dls) ==
    IF o.d > Len(dls) THEN EnterPass(o, NextPass(o))
    ELSE AfterAdd(o, DlStep(o.items, dls[o.d]))

\* one step of the loop of lines 439-444 or of lines 447-452
MatchStepOf(o, ms) ==
    IF o.k > Len(ms) THEN EnterPass(o, NextPass(o))
    ELSE AfterAdd(o, _add(o.items, NoRank, Strip(ms[o.k].name), Strip(ms[o.k].code)))

TablePassStep ==
    /\ fn = "extract_top10_holdings_hifumi_html" /\ output.pc = "loop"
    /\ output.pass = "table"
    /\ output' = TableStepOf(output, input.tables)
    /\ called' = TRUE
    /\ UNCHANGED <<fn, input>> /\ UNCHANGED driverVars

DlPassStep ==
    /\ fn = "extract_top10_holdings_hifumi_html" /\ output.pc = "loop"
    /\ output.pass = "dl"
    /\ output' = DlStepOf(output, input.dls)
    /\ called' = TRUE
    /\ UNCHANGED <<fn, input>> /\ UNCHANGED driverVars

Pat1Step ==
    /\ fn = "extract_top10_holdings_hifumi_html" /\ output.pc = "loop"
    /\ output.pass = "pat1"
    /\ output' = MatchStepOf(output, input.scripts.pat1)
    /\ called' = TRUE
    /\ UNCHANGED <<fn, input>> /\ UNCHANGED driverVars

Pat2Step ==
    /\ fn = "extract_top10_holdings_hifumi_html" /\ output.pc = "loop"
    /\ output.pass = "pat2"
    /\ output' = MatchStepOf(output, input.scripts.pat2)
    /\ called' = TRUE
    /\ UNCHANGED <<fn, input>> /\ UNCHANGED driverVars

\* lines 455-461 on the items collected
HifumiReturn ==
    /\ fn = "extract_top10_holdings_hifumi_html" /\ output.pc = "loop"
    /\ output.pass = "final"
    /\ output' = [output EXCEPT
                     !.ret = First10(SortByRank(NumberRanks(output.items),
                                                Len(output.items))),
                     !.pc = "done"]
    /\ called' = TRUE
    /\ UNCHANGED <<fn, input>> /\ UNCHANGED driverVars

(***************************************************************************)
(* Documents of up to MaxEntries holdings, one of them possibly printed a  *)
(* second time.  A list of entries is a list of entry numbers: entry i has *)
(* the name EntryName(i) and the code EntryCode(i).                        *)
(***************************************************************************)
MaxEntries == 12

EntryLetters ==
    <<"a", "b", "c", "d", "e", "f", "g", "h", "i", "j", "k", "l", "m", "n", "o", "p">>

DigitChar(d) == <<"0", "1", "2", "3", "4", "5", "6", "7", "8", "9">>[d + 1]

NumText(n) == IF n < 10 THEN <<DigitChar(n)>> ELSE <<DigitChar(n \div 10), DigitChar(n % 10)>>

EntryName(i) == <<"N", EntryLetters[i]>>

EntryCode(i) == <<"7", "0", DigitChar(i \div 10), DigitChar(i % 10)>>

\* entries 1..n in order, the one at position at replaced by a repeat of entry of
EntryList(n, at, of) == [k \in 1..n |-> IF k = at THEN of ELSE k]

\* the lists of up to max entries
EntryLists(max) ==
    {EntryList(n, 0, 0) : n \in 0..max}
    \cup {EntryList(c[1], c[2], c[3]) :
            c \in {d \in (1..max) \X (1..max) \X (1..max) : d[3] < d[2] /\ d[2] <= d[1]}}

\* the rank printed beside the k-th holding: 1..10, then 1 again
PrintedRank(k) == ((k - 1) % 10) + 1

\* a line of the holdings block: rank, name, ratio
EntryLine(k, i) == NumText(PrintedRank(k)) \o <<" ">> \o EntryName(i) \o <<" ", "4", "%">>

LongLines(e) == <<LineTrigger>> \o [k \in 1..Len(e) |-> EntryLine(k, e[k])]

\* a row of a ruled table: rank cell, name cell
EntryRow(k, i) == <<NumText(PrintedRank(k)), EntryName(i)>>

PageOf(e, from, to) ==
    [tables |-> <<[k \in 1..(to - from + 1) |-> EntryRow(from + k - 1, e[from + k - 1])]>>,
     fail |-> "none"]

\* the rows on one page, or the first s of them on one page and the rest on the next
LongPages(e, s) ==
    IF e = <<>> THEN <<>>
    ELSE IF s = 0 THEN <<PageOf(e, 1, Len(e))>>
    ELSE <<PageOf(e, 1, s), PageOf(e, s + 1, Len(e))>>

LongPageDocs(max) ==
    UNION {{LongPages(e, s) : s \in 0..(IF e = <<>> THEN 0 ELSE Len(e) - 1)} :
             e \in EntryLists(max)}

HeaderTr ==
    <<[th |-> TRUE, text |-> JUNI], [th |-> TRUE, text |-> MEIGARAMEI],
      [th |-> TRUE, text |-> MEIGARA \o KOODO]>>

\* a row of a holdings table of the page: rank, name, code
EntryTr(rank, i) ==
    <<[th |-> FALSE, text |-> rank], [th |-> FALSE, text |-> EntryName(i)],
      [th |-> FALSE, text |-> EntryCode(i)]>>

\* a card of the page: name and code, the rank in the text around it
EntryDl(rank, i) ==
    [dts |-> <<MEIGARAMEI, KOODO>>, dds |-> <<EntryName(i), EntryCode(i)>>,
     parent |-> <<rank>>]

\* a name and code pair found in the scripts
EntryMatch(i) == [name |-> EntryName(i), code |-> EntryCode(i)]

\* the entries e: the first a in a table, those up to b in cards, those up to c
\* matched by pat1 and the rest by pat2
LongPage(e, a, b, c) ==
    [text |-> <<>>,
     tables |-> IF a = 0 THEN <<>>
                ELSE << <<HeaderTr>> \o [k \in 1..a |-> EntryTr(NumText(PrintedRank(k)), e[k])] >>,
     dls |-> [k \in 1..(b - a) |-> EntryDl(NumText(PrintedRank(a + k)), e[a + k])],
     scripts |-> [pat1 |-> [k \in 1..(c - b) |-> EntryMatch(e[b + k])],
                  pat2 |-> [k \in 1..(Len(e) - c) |-> EntryMatch(e[c + k])]]]

\* where a page of n entries is cut: at its start, after three, eight or ten
\* entries, at its end
CutPoints(n) == {x \in {0, 3, 8, 10, n} : x <= n}

Cuts(n) == {c \in CutPoints(n) \X CutPoints(n) \X CutPoints(n) : c[1] <= c[2] /\ c[2] <= c[3]}

LongPageOf(e, c) == LongPage(e, c[1], c[2], c[3])

LongHifumiPages(max) ==
    UNION {{LongPageOf(e, c) : c \in Cuts(Len(e))} : e \in EntryLists(max)}

\* the texts of a rank cell: ranks 0, 5 (twice), 10 and 99, and no rank
RankTexts == {<<"0">>, <<"5">>, <<"FW_5">>, <<"1", "0">>, <<"9", "9">>, <<"-">>}

MaxRanked == 3

\* a table whose rows carry the rank texts rt, then m matches of pat1
RankedPage(rt, m) ==
    [text |-> <<>>,
     tables |-> << <<HeaderTr>> \o [k \in 1..Len(rt) |-> EntryTr(rt[k], k)] >>,
     dls |-> <<>>,
     scripts |-> [pat1 |-> [k \in 1..m |-> EntryMatch(Len(rt) + k)], pat2 |-> <<>>]]

RankedPages(max) == {RankedPage(rt, m) : rt \in SeqsUpTo(RankTexts, max), m \in 0..1}

InitLongLine ==
    /\ fn = "extract_top10_holdings"
    /\ input \in {LongLines(e) : e \in EntryLists(MaxEntries)}
    /\ output = [lines |-> CleanLines(input), i |-> 1, st |-> ScanStart, ret |-> <<>>,
                 pc |-> "loop"]
    /\ called = FALSE /\ DriverIdle

InitLongTable ==
    /\ fn = "extract_top10_holdings_sparx_table"
    /\ input \in LongPageDocs(MaxEntries)
    /\ output = [i |-> 1, st |-> PagesStart, ret |-> <<>>, pc |-> "loop"]
    /\ called = FALSE /\ DriverIdle

InitHifumi ==
    /\ fn = "extract_top10_holdings_hifumi_html"
    /\ input \in LongHifumiPages(MaxEntries) \cup RankedPages(MaxRanked)
    /\ output = [pass |-> "table", t |-> 1, r |-> 1, d |-> 1, k |-> 1, items |-> <<>>,
                 entered |-> <<>>, ret |-> <<>>, pc |-> "loop"]
    /\ called = FALSE /\ DriverIdle

InitExtract == InitLongLine \/ InitLongTable \/ InitHifumi

NextExtract ==
    \/ ScanLine \/ ScanReturn
    \/ ScanPage \/ PagesReturn
    \/ TablePassStep \/ DlPassStep \/ Pat1Step \/ Pat2Step \/ HifumiReturn

SpecExtract == InitExtract /\ [][NextExtract]_vars

\* the stepwise run returns what the function returns
StepwiseAgrees ==
    output.pc = "done" =>
        output.ret =
            IF fn = "extract_top10_holdings"
            THEN extract_top10_holdings(input, Trigger, SkipKeywords)
            ELSE IF fn = "extract_top10_holdings_sparx_table"
            THEN extract_top10_holdings_sparx_table(input)
            ELSE extract_top10_holdings_hifumi_html(input)

(***************************************************************************)
(* The extractors' claims on the returned lists.                           *)
(***************************************************************************)
\* no two holdings of a list of names are the same name
DistinctNames(holdings) ==
    \A i, j \in 1..Len(holdings) : i # j => holdings[i] # holdings[j]

\* no two items carry the same code, codes compared as line 301 compares them
DistinctCodes(items) ==
    \A i, j \in 1..Len(items) : i # j => items[i].code # items[j].code

HifumiRuns == fn = "extract_top10_holdings_hifumi_html"

\* C11: each of the three extractors returns at most 10 entries and no duplicate:
\* no name twice from the line-pattern and ruled-table extractors, no code twice
\* from the structured-markup extractor whichever passes found the entries; in the
\* structured-markup extractor the items never number more than 10 at any point
\* and each later pass (dl, pat1, pat2) is entered holding fewer than 10 items.
C11_CandidateList ==
    /\ (fn \in {"extract_top10_holdings", "extract_top10_holdings_sparx_table"}
        /\ output.pc = "done")
       => (Len(output.ret) <= 10 /\ DistinctNames(output.ret))
    /\ HifumiRuns =>
         /\ Len(output.items) <= 10
         /\ DistinctCodes(output.items)
         /\ \A k \in 1..Len(output.entered) : output.entered[k].n < 10
         /\ output.pc = "done" => (Len(output.ret) <= 10 /\ DistinctCodes(output.ret))

\* the codes the page holds, pass by pass
PageCodes(page) ==
    [k \in 1..Len(page.dls) |-> page.dls[k].dds[2]]
    \o [k \in 1..Len(page.scripts.pat1) |-> page.scripts.pat1[k].code]
    \o [k \in 1..Len(page.scripts.pat2) |-> page.scripts.pat2[k].code]

\* a page of more than eleven entries over a table, cards and both patterns, a card
\* repeating a code of the table: every pass was entered, pat2 stopped at the tenth
\* item with a match still unread, ten items were returned
C11_Witness ==
    /\ HifumiRuns /\ output.pc = "done"
    /\ Len(input.tables) = 1 /\ Len(input.tables[1]) > 1
    /\ Len(input.dls) > 0 /\ Len(input.scripts.pat1) > 0 /\ Len(input.scripts.pat2) > 0
    /\ Len(input.tables[1]) - 1 + Len(PageCodes(input)) > 11
    /\ \E d \in 1..Len(input.dls) : \E r \in 2..Len(input.tables[1]) :
          input.dls[d].dds[2] = input.tables[1][r][3].text
    /\ [k \in 1..Len(output.entered) |-> output.entered[k].pass] = <<"dl", "pat1", "pat2">>
    /\ output.k < Len(input.scripts.pat2)
    /\ Len(output.ret) = 10

(***************************************************************************)
(* The order of the structured-markup result.                              *)
(***************************************************************************)
Unranked(items) == \A k \in 1..Len(items) : items[k].rank = NoRank

\* the place of an item among the items collected
PlaceOf(items, it) == CHOOSE k \in 1..Len(items) : items[k].code = it.code

\* a may be returned before b: a ranked item before an unranked one, the lower
\* rank first, equal ranks and unranked items in the order of discovery
InOrder(items, a, b) ==
    /\ a.rank = NoRank => b.rank = NoRank
    /\ (a.rank # NoRank /\ b.rank # NoRank) => a.rank <= b.rank
    /\ a.rank = b.rank => PlaceOf(items, a) < PlaceOf(items, b)

SameEntries(items, ret) ==
    /\ Len(ret) = Len(items)
    /\ \A k \in 1..Len(items) : \E j \in 1..Len(ret) : ret[j] = items[k]

Ordered(items, ret) ==
    IF Unranked(items)
    THEN ret = [k \in 1..Len(items) |-> [items[k] EXCEPT !.rank = k]]
    ELSE /\ SameEntries(items, ret)
         /\ \A i, j \in 1..Len(ret) : i < j => InOrder(items, ret[i], ret[j])

\* C12: the structured-markup extractor returns the items it collected, numbered
\* 1..n in discovery order when none carries a rank; otherwise in ascending order
\* of rank for every rank 0..99, every unranked item after every ranked one, items
\* of equal rank in discovery order.
C12_FinalOrdering ==
    (HifumiRuns /\ output.pc = "done") => Ordered(output.items, output.ret)

\* the same, for the runs that collected no item of rank 0
C12_ExceptZero ==
    (HifumiRuns /\ output.pc = "done"
     /\ \A k \in 1..Len(output.items) : output.items[k].rank # 0)
    => Ordered(output.items, output.ret)

====
